---- MODULE Spec2Model ----
(***************************************************************************)
(* State-machine model of the client-side session engine of               *)
(* GoldenDoodleLM: ChatInterface (static/js/chat.js, the "Modern Chat     *)
(* Interface" class) and BrandVoiceWizard (static/js/brand_voice.js).     *)
(*                                                                         *)
(* JavaScript runs handlers to completion; a handler is interrupted only  *)
(* at an await.  Every action below is one run-to-completion segment: the *)
(* code from an event (or from the resolution of an awaited promise) to   *)
(* the next await or to the end of the handler.                           *)
(***************************************************************************)
EXTENDS Integers, Sequences, FiniteSets, TLC

\* ---------------------------------------------------------------- bounds
MaxCalls == 2          \* accepted sendMessage invocations (SpecSubmit, SpecEarlier)
MaxTurns == 1          \* accepted sendMessage invocations (Spec, SpecRequest, SpecFaults)
MaxNewSessions == 1    \* sessions the server creates on /new-session
MaxLoads == 1          \* loadChat fetches pending at the same time
MaxNewChats == 1       \* stand-alone startNewChat(true) calls pending at once
MaxEdits == 4          \* input/change events on the wizard form
MaxSubmits == 2        \* handleSubmit calls on the wizard form
MaxRejects == 1        \* sendMessage calls that return at the entry guard
MaxDeletes == 1
MaxOverlap == 2        \* deleteSession calls
MaxTitleLen == 51      \* length of the longest message typed (SpecTitle)

\* ------------------------------------------------------ program constants
DefaultMaxRetries == 3      \* makeRequest(url, data, maxRetries = 3)
BackoffUnitMs == 1000       \* Math.pow(2, attempt) * 1000
TitleMax == 50              \* firstMessage.length > 50
TitleKeep == 47             \* firstMessage.substring(0, 47)
AutoSaveDelayMs == 2000     \* setTimeout(() => this.autoSave(), 2000)
RedirectDelayMs == 2000   \* setTimeout(..., 2000) before the redirect
TotalSteps == 6           \* this.totalSteps
TickMs == AutoSaveDelayMs \div 2   \* granularity of the model's clock

None == "null"              \* JavaScript null

Calls == 1..(IF MaxCalls > MaxTurns THEN MaxCalls ELSE MaxTurns)
ExistingSessions == {"s0"}                     \* sessions /chat-history lists
FreshIds == <<"s1", "s2", "s3">>                \* ids /new-session hands out

\* Texts are sequences of one-character strings; " " is white space.
InputTexts == { <<" ">>, <<" ", "a">> }
ResponseText == <<"r">>
DefaultErrorText == <<"Sorry, I encountered an error. Please try again.">>
ThinkingText == <<"Thinking...">>
ConnectionErrorText == <<"Connection error occurred. Please try again.">>

Modes == {"email", "social"}        \* data-mode of the mode buttons
BrandVoices == {"", "v1"}           \* values of the voice dropdown ('' is none)

\* Failure kinds of one makeRequest attempt.
ErrKinds == {"network", "timeout", "http", "json"}

VARIABLES
    isLoggedIn,        \* window.isLoggedIn, fixed for the page
    faultsOn,          \* whether addMessage may throw (environment of the run)
    currentSessionId,  \* this.currentSessionId
    isGenerating,      \* this.isGenerating
    chatInput,         \* this.chatInput.value
    dom,               \* the .message elements of #chatMessages, in order
    sidebar,           \* the .chat-history-item elements of #chatHistory
    calls,             \* one record per sendMessage invocation
    ncalls,            \* number of sendMessage invocations accepted so far
    nsessions,         \* number of sessions created by /new-session
    loads,             \* session ids whose loadChat fetch is pending
    newChats,          \* number of pending stand-alone startNewChat(true)
    nrejects,          \* sendMessage calls that returned at the entry guard
    deletes,           \* session ids whose DELETE request is pending
    ndeletes,          \* deleteSession calls so far
    currentMode,       \* this.currentMode
    selectedBrandVoice, \* this.selectedBrandVoice
    activeModeButtons, \* the mode buttons that carry the class 'active'
    lastLoad,          \* history: session of the loadChat fetch issued last
    historyPending     \* GET /chat-history of loadChatHistory is not answered yet

VARIABLES
    dbSessions,        \* rows of table chat_sessions
    dbMessages,        \* rows of table chat_messages
    dbSeen,            \* the rows the last statement returned to its user
    dbActor            \* auth.uid() of the last statement

VARIABLES
    form,              \* values of the form inputs of #brandVoiceForm
    autoSaveTimeout,   \* this.autoSaveTimeout: handle of the last timer set
    timers,            \* live setTimeout timers: handle -> ms until due
    nedits,            \* number of input/change events so far
    saves,             \* /auto-save-brand-voice requests in flight
    profileId,         \* this.profileId
    nprofiles,         \* profiles the server has created
    saveIndicator,     \* the .save-indicator element shown last
    sinceUpdate,       \* ms since the last scheduleAutoSave call (capped)
    burstFires,        \* autoSave invocations since the current burst began
    burstPayload,      \* payload of the request issued in the current burst
    burstCalls,        \* scheduleAutoSave calls of the current burst
    validity,          \* is-valid / is-invalid class of each required input
    saveAnswer,        \* how the latest answered auto-save request ended
    currentStep,       \* this.currentStep
    isSubmitting,      \* this.isSubmitting
    creates,           \* /create-brand-voice requests awaiting their answer
    nsubmits,          \* handleSubmit calls so far
    redirectTimer,     \* ms left on each pending redirect to /brand-voices
    unloaded           \* the page has been left

submitVars == <<currentStep, isSubmitting, creates, nsubmits, redirectTimer, unloaded>>

wizVars == <<form, autoSaveTimeout, timers, nedits, saves, profileId, nprofiles,
             saveIndicator, sinceUpdate, burstFires, burstPayload, burstCalls, validity, saveAnswer, submitVars>>

modeVars == <<currentMode, selectedBrandVoice, activeModeButtons>>

panelVars == <<deletes, ndeletes, modeVars, lastLoad, historyPending>>

dbVars == <<dbSessions, dbMessages, dbSeen, dbActor>>

chatVars == <<isLoggedIn, faultsOn, currentSessionId, isGenerating, chatInput,
              dom, sidebar, calls, ncalls, nsessions, loads, newChats, nrejects, panelVars>>

\* ------------------------------------------------------------ pure helpers
RECURSIVE TrimLeft(_)
TrimLeft(t) == IF t # <<>> /\ Head(t) = " " THEN TrimLeft(Tail(t)) ELSE t

RECURSIVE TrimRight(_)
TrimRight(t) ==
    IF t # <<>> /\ t[Len(t)] = " " THEN TrimRight(SubSeq(t, 1, Len(t) - 1)) ELSE t

\* String.prototype.trim
Trim(t) == TrimRight(TrimLeft(t))

RECURSIVE Pow2(_)
Pow2(n) == IF n = 0 THEN 1 ELSE 2 * Pow2(n - 1)

\* error.message of the Error an attempt raises
ErrMessage(kind) ==
    CASE kind = "network" -> <<"Network request failed: Failed to fetch">>
      [] kind = "timeout" -> <<"Network request failed: The user aborted a request.">>
      [] kind = "http"    -> <<"HTTP 500">>
      [] kind = "json"    -> <<"Invalid response format from server">>
      [] OTHER            -> <<"addMessage failed">>

\* addMessage(content, sender, isError): appends one .message element
AddMessage(d, content, sender, isError) ==
    Append(d, [sender |-> sender, content |-> content, isError |-> isError, loading |-> 0])

\* addLoadingMessage(): a .message.message-ai element with id loading-<n>
AddLoadingMessage(d, id) ==
    Append(d, [sender |-> "ai", content |-> ThinkingText, isError |-> FALSE, loading |-> id])

\* removeLoadingMessage(loadingId)
RemoveLoadingMessage(d, id) == SelectSeq(d, LAMBDA m : m.loading # id)

\* document.querySelectorAll('[id^="loading-"]').forEach(msg => msg.remove())
RemoveAllLoading(d) == SelectSeq(d, LAMBDA m : m.loading = 0)

\* clearChatMessages(): only the welcome screen is left, no .message element
ClearChatMessages == <<>>

\* title computed by updateChatTitleInSidebar
\* variant: a message of exactly TitleMax characters is shortened too
DeriveTitleEager(firstMessage) ==
    IF Len(firstMessage) >= TitleMax
    THEN SubSeq(firstMessage, 1, TitleKeep) \o <<".", ".", ".">>
    ELSE firstMessage

DeriveTitle(firstMessage) ==
    IF Len(firstMessage) > TitleMax
    THEN SubSeq(firstMessage, 1, TitleKeep) \o <<".", ".", ".">>
    ELSE firstMessage

SidebarIds(sb) == { sb[i].id : i \in 1..Len(sb) }

\* updateChatTitleInSidebar(sessionId, firstMessage)
UpdateChatTitleInSidebar(sb, sessionId, firstMessage) ==
    [i \in 1..Len(sb) |->
        IF sb[i].id = sessionId
        THEN [sb[i] EXCEPT !.title = DeriveTitle(firstMessage), !.count = @ + 2]
        ELSE sb[i]]

\* variant: the entry is prepended without a look for one with the same id
AddChatToSidebarAlways(sb, chat) == <<chat>> \o sb

\* addChatToSidebar(chat): update the entry with this id or prepend a new one
AddChatToSidebar(sb, chat) ==
    IF chat.id \in SidebarIds(sb)
    THEN [i \in 1..Len(sb) |->
            IF sb[i].id = chat.id
            THEN [sb[i] EXCEPT !.title = chat.title, !.count = chat.count]
            ELSE sb[i]]
    ELSE <<chat>> \o sb

NewChatEntry(id) == [id |-> id, title |-> <<"New Chat">>, count |-> 0]

\* chatData.messages of GET /chat/<id>: what the server stored for a session
StoredHistories ==
    { <<>>,
      << [sender |-> "user", content |-> <<"a">>],
         [sender |-> "ai", content |-> ResponseText] >>,
      << [sender |-> "user", content |-> <<"a">>],
         [sender |-> "ai", content |-> ResponseText],
         [sender |-> "user", content |-> <<"a">>] >> }

RECURSIVE AddAll(_, _)
AddAll(d, msgs) ==
    IF msgs = <<>> THEN d
    ELSE AddAll(AddMessage(d, Head(msgs).content, Head(msgs).sender, FALSE), Tail(msgs))

\* ------------------------------------------------------------ call records
IdleCall ==
    [pc |-> "idle", prompt |-> <<>>, sid |-> None,
     attempt |-> 0, deadline |-> "none", waits |-> <<>>,
     outcome |-> "none", thrown |-> "none", lastErr |-> "none",
     nUser |-> 0, nAi |-> 0, nErr |-> 0, alerted |-> FALSE, rejected |-> FALSE,
     history |-> <<>>, mode |-> None, voice |-> None]

\* the result of a settled call is observable until the next call is accepted
Forget(cs) == [c \in DOMAIN cs |-> IF cs[c].pc = "done" THEN [IdleCall EXCEPT !.pc = "done"] ELSE cs[c]]

InFlight(c) == calls[c].pc \notin {"idle", "done"}
Requesting(c) == calls[c].pc \in {"fetch", "body", "errBody", "backoff"}

FaultChoices == IF faultsOn THEN {"none", "content", "dom"} ELSE {"none"}

\* A settled sendMessage call.  The request data is discarded and the result
\* kept; the promise of sendMessage is fulfilled, never rejected, because the
\* catch block ends every exception of the try block.
Settled(rec, outcome, alerted) ==
    [rec EXCEPT !.pc = "done", !.outcome = outcome, !.alerted = alerted,
                !.rejected = FALSE, !.prompt = <<>>, !.sid = None, !.deadline = "none",
                !.history = <<>>, !.mode = None, !.voice = None]

\* finally { this.isGenerating = false; ... }: runs however the try and catch
\* blocks ended (raisedInCatch: addMessage threw inside the catch block)
Finally(raisedInCatch) == FALSE

\* entry guard of sendMessage: if (!prompt || this.isGenerating) return
\* variant: the input is tested without trim()
SendGuardUntrimmed(text, generating) == text # <<>> /\ ~generating

SendGuard(text, generating) == Trim(text) # <<>> /\ ~generating

\* number of non-loading .message elements of one sender (error bubbles apart)
CountMsgs(d, sender, isError) ==
    Len(SelectSeq(d, LAMBDA m : m.loading = 0 /\ m.sender = sender /\ m.isError = isError))

\* Book-keeping of what one sendMessage segment appended: the counters grow
\* by the difference between the conversation before and after the segment.
Tally(rec, before, after) ==
    [rec EXCEPT !.nUser = @ + CountMsgs(after, "user", FALSE) - CountMsgs(before, "user", FALSE),
                !.nAi   = @ + CountMsgs(after, "ai", FALSE) - CountMsgs(before, "ai", FALSE),
                !.nErr  = @ + CountMsgs(after, "ai", TRUE) - CountMsgs(before, "ai", TRUE)]

\* getConversationHistory(): the .message elements other than the loading
\* placeholders, each with its role and its trimmed text, without entries
\* whose text is empty or is 'Thinking...' (replies in the model carry no
\* markdown, so the text of a reply bubble is the reply)
GetConversationHistory(d) ==
    LET shown == SelectSeq(d, LAMBDA m : m.loading = 0)
        entries == [i \in 1..Len(shown) |->
                       [role |-> IF shown[i].sender = "user" THEN "user" ELSE "assistant",
                        content |-> Trim(shown[i].content)]]
    IN SelectSeq(entries, LAMBDA e : e.content # << >> /\ e.content # ThinkingText)

\* brand_voice_id of the request: this.selectedBrandVoice || null (the page is
\* not in demo mode)
BrandVoiceId(v) == IF v = "" THEN None ELSE v

\* ------------------------------------------------- sendMessage, catch block
\* variant: the catch block cleans up and reports nothing
CatchBlockSilent(d, msg, f) == [dom |-> RemoveAllLoading(d), alerted |-> FALSE]

\* catch (error) of sendMessage: drop every loading bubble, then
\* try { addMessage(errorMessage, 'ai', true) } catch { alert(errorMessage) }
CatchBlock(d, msg, f) ==
    LET d1 == RemoveAllLoading(d)
    IN IF f = "dom"
       THEN [dom |-> d1, alerted |-> TRUE]
       ELSE [dom |-> AddMessage(d1, msg, "ai", TRUE), alerted |-> FALSE]

\* variant: the loop bound is tested one attempt late
IsPastLastAttempt(attempt, maxRetries) == attempt > maxRetries

\* makeRequest: the request is abandoned after the attempt numbered maxRetries
IsLastAttempt(attempt, maxRetries) == attempt = maxRetries

\* makeRequest: `throw error` re-raises the error caught in this iteration
RaisedError(caught) == caught

\* variant: the wait grows linearly with the attempt number
LinearDelay(attempt) == attempt * BackoffUnitMs

\* makeRequest: setTimeout(resolve, Math.pow(2, attempt) * 1000)
BackoffDelay(attempt) == Pow2(attempt) * BackoffUnitMs

\* Lines 1699-1728 of sendMessage: clear the input, raise the flag, append the
\* user bubble and the loading bubble, build requestData and start attempt 1.
\* With a broken DOM addMessage throws and the catch/finally blocks run at once.
Generate(c, prompt, d, sess, f) ==
    IF f = "dom"
    THEN LET r == CatchBlock(d, ErrMessage("dom"), f)
         IN /\ chatInput' = <<>>
            /\ isGenerating' = Finally(r.alerted)
            /\ dom' = r.dom
            /\ calls' = [Forget(calls) EXCEPT ![c] =
                   Tally(Settled(IdleCall, "error", r.alerted), d, r.dom)]
    ELSE LET d1 == AddMessage(d, prompt, "user", FALSE)
             d2 == AddLoadingMessage(d1, c)
         IN /\ chatInput' = <<>>
            /\ isGenerating' = TRUE
            /\ dom' = d2
            /\ calls' = [Forget(calls) EXCEPT ![c] =
                   Tally([IdleCall EXCEPT !.pc = "fetch", !.prompt = prompt, !.sid = sess,
                                          !.attempt = 1, !.deadline = "armed",
                                          !.history = GetConversationHistory(d2),
                                          !.mode = currentMode,
                                          !.voice = BrandVoiceId(selectedBrandVoice)],
                         d, d2)]

\* variant: the pointer takes the id before the creation is known to have
\* succeeded
CreatedSessionIdEarly(ok, n) == FreshIds[n + 1]

\* startNewChat(): the value currentSessionId has once /new-session has been
\* answered: data.session_id of a 2xx answer, null from the catch block
CreatedSessionId(ok, n) == IF ok THEN FreshIds[n + 1] ELSE None

\* sendMessage after its entry guard, called with the input text and the
\* conversation as they are at the call.  A logged-in client without a session
\* first awaits startNewChat(false); the flag is raised only after that await.
StartSend(c, text, d, f) ==
    IF currentSessionId = None /\ isLoggedIn
    THEN /\ calls' = [Forget(calls) EXCEPT ![c] =
                [IdleCall EXCEPT !.pc = "newSession1", !.prompt = Trim(text)]]
         /\ chatInput' = text
         /\ dom' = d
         /\ UNCHANGED isGenerating
    ELSE Generate(c, Trim(text), d, currentSessionId, f)

\* sendMessage(): the Enter key or the send button
SendMessage(c, f) ==
    /\ c = ncalls + 1
    /\ SendGuard(chatInput, isGenerating)
    /\ StartSend(c, chatInput, dom, f)
    /\ ncalls' = c
    /\ UNCHANGED <<isLoggedIn, faultsOn, currentSessionId, sidebar, nsessions, loads,
                   newChats, nrejects, panelVars, dbVars, wizVars>>

\* sendMessage() returns at its entry guard (line 1685): nothing is touched
SendMessageReturns ==
    /\ ~SendGuard(chatInput, isGenerating)
    /\ nrejects < MaxRejects
    /\ nrejects' = nrejects + 1
    /\ UNCHANGED <<isLoggedIn, faultsOn, currentSessionId, isGenerating, chatInput, dom,
                   sidebar, calls, ncalls, nsessions, loads, newChats, panelVars, dbVars, wizVars>>

\* /new-session answered while sendMessage awaits startNewChat(false).
\* startNewChat sets currentSessionId (null on failure) and adds the sidebar
\* entry; sendMessage resumes and either retries the creation once (line 1696)
\* or goes on to lines 1699-1728 with whatever session id it now has.
NewSessionDone(c, ok, f) ==
    /\ calls[c].pc \in {"newSession1", "newSession2"}
    /\ ok => nsessions < MaxNewSessions
    /\ LET id == CreatedSessionId(ok, nsessions)
       IN /\ sidebar' = IF ok THEN AddChatToSidebar(sidebar, NewChatEntry(id)) ELSE sidebar
          /\ nsessions' = IF ok THEN nsessions + 1 ELSE nsessions
          /\ currentSessionId' = id
          /\ IF calls[c].pc = "newSession1" /\ isLoggedIn /\ id = None
             THEN /\ calls' = [calls EXCEPT ![c].pc = "newSession2"]
                  /\ UNCHANGED <<chatInput, isGenerating, dom>>
             ELSE Generate(c, calls[c].prompt, dom, id, f)
    /\ UNCHANGED <<isLoggedIn, faultsOn, ncalls, loads, newChats, nrejects, panelVars, dbVars, wizVars>>

\* makeRequest gives up (`throw error`): the catch and finally blocks of
\* sendMessage run
GiveUp(c, kind, f) ==
    LET thrown == RaisedError(kind)
        r == CatchBlock(dom, ErrMessage(thrown), f)
    IN /\ dom' = r.dom
       /\ isGenerating' = Finally(r.alerted)
       /\ calls' = [calls EXCEPT ![c] =
              Tally(Settled([@ EXCEPT !.lastErr = kind, !.thrown = thrown], "error", r.alerted),
                    dom, r.dom)]

\* makeRequest waits before the next attempt; nothing is shown meanwhile
Retry(c, kind) ==
    /\ calls' = [calls EXCEPT ![c] =
           [@ EXCEPT !.pc = "backoff", !.deadline = "none", !.lastErr = kind,
                     !.waits = Append(@, BackoffDelay(calls[c].attempt))]]
    /\ UNCHANGED <<dom, isGenerating>>

\* variant: every failed attempt is reported in the conversation
AttemptFailedShown(c, kind, f) ==
    IF IsLastAttempt(calls[c].attempt, DefaultMaxRetries)
    THEN GiveUp(c, kind, f)
    ELSE LET d1 == AddMessage(dom, ErrMessage(kind), "ai", TRUE)
         IN /\ dom' = d1
            /\ calls' = [calls EXCEPT ![c] =
                   Tally([@ EXCEPT !.pc = "backoff", !.deadline = "none", !.lastErr = kind,
                                   !.waits = Append(@, BackoffDelay(calls[c].attempt))],
                         dom, d1)]
            /\ UNCHANGED isGenerating

\* The catch block of makeRequest, entered by every kind of failed attempt
AttemptFailed(c, kind, f) ==
    IF IsLastAttempt(calls[c].attempt, DefaultMaxRetries)
    THEN GiveUp(c, kind, f)
    ELSE Retry(c, kind)

\* fetch rejects (connection failure): Error('Network request failed: ...')
FetchNetworkError(c, f) ==
    /\ calls[c].pc = "fetch"
    /\ AttemptFailed(c, "network", f)
    /\ UNCHANGED <<isLoggedIn, faultsOn, currentSessionId, chatInput, sidebar,
                   ncalls, nsessions, loads, newChats, nrejects, panelVars, dbVars, wizVars>>

\* the 45 s timer fires while fetch is pending: controller.abort() makes fetch
\* reject, which takes the same path as a connection failure
FetchTimeout(c, f) ==
    /\ calls[c].pc = "fetch"
    /\ calls[c].deadline = "armed"
    /\ AttemptFailed(c, "timeout", f)
    /\ UNCHANGED <<isLoggedIn, faultsOn, currentSessionId, chatInput, sidebar,
                   ncalls, nsessions, loads, newChats, nrejects, panelVars, dbVars, wizVars>>

\* fetch resolves with the response headers: clearTimeout(timeoutId), then the
\* body is awaited (response.json()) with no timer armed
FetchHeaders(c, ok) ==
    /\ calls[c].pc = "fetch"
    /\ calls' = [calls EXCEPT ![c] =
            [@ EXCEPT !.pc = IF ok THEN "body" ELSE "errBody", !.deadline = "cleared"]]
    /\ UNCHANGED <<isLoggedIn, faultsOn, currentSessionId, isGenerating, chatInput, dom,
                   sidebar, ncalls, nsessions, loads, newChats, nrejects, panelVars, dbVars, wizVars>>

\* non-2xx: response.json().catch(() => ({})) settles, Error(errorData.error ||
\* `HTTP ${status}`) is thrown
ErrBodyDone(c, f) ==
    /\ calls[c].pc = "errBody"
    /\ AttemptFailed(c, "http", f)
    /\ UNCHANGED <<isLoggedIn, faultsOn, currentSessionId, chatInput, sidebar,
                   ncalls, nsessions, loads, newChats, nrejects, panelVars, dbVars, wizVars>>

\* 2xx whose body is not JSON: Error('Invalid response format from server')
BodyMalformed(c, f) ==
    /\ calls[c].pc = "body"
    /\ AttemptFailed(c, "json", f)
    /\ UNCHANGED <<isLoggedIn, faultsOn, currentSessionId, chatInput, sidebar,
                   ncalls, nsessions, loads, newChats, nrejects, panelVars, dbVars, wizVars>>

\* the backoff timer fires: next iteration of the for loop, new controller and
\* new 45 s timer, fetch is issued again
BackoffDone(c) ==
    /\ calls[c].pc = "backoff"
    /\ calls' = [calls EXCEPT ![c] =
            [@ EXCEPT !.pc = "fetch", !.attempt = @ + 1, !.deadline = "armed",
                      !.lastErr = "none"]]
    /\ UNCHANGED <<isLoggedIn, faultsOn, currentSessionId, isGenerating, chatInput, dom,
                   sidebar, ncalls, nsessions, loads, newChats, nrejects, panelVars, dbVars, wizVars>>

\* 2xx with a JSON body: makeRequest returns it and sendMessage resumes at
\* line 1730: drop its loading bubble, append the reply (or the error bubble
\* when the body has no `response`), update the sidebar title; finally.
BodyParsed(c, hasResponse, f) ==
    /\ calls[c].pc = "body"
    /\ LET d0 == RemoveLoadingMessage(dom, c)
           threw == IF hasResponse THEN f # "none" ELSE f = "dom"
           r == CatchBlock(d0, ErrMessage("dom"), f)
           d1 == IF threw THEN r.dom
                 ELSE IF hasResponse THEN AddMessage(d0, ResponseText, "ai", FALSE)
                 ELSE AddMessage(d0, DefaultErrorText, "ai", TRUE)
       IN /\ dom' = d1
          /\ sidebar' = IF hasResponse /\ ~threw /\ isLoggedIn /\ currentSessionId # None
                        THEN UpdateChatTitleInSidebar(sidebar, currentSessionId, calls[c].prompt)
                        ELSE sidebar
          /\ calls' = [calls EXCEPT ![c] =
                 Tally(Settled(@, IF hasResponse /\ ~threw THEN "response" ELSE "error",
                               threw /\ r.alerted),
                       dom, d1)]
          /\ isGenerating' = Finally(threw /\ r.alerted)
    /\ UNCHANGED <<isLoggedIn, faultsOn, currentSessionId, chatInput,
                   ncalls, nsessions, loads, newChats, nrejects, panelVars, dbVars, wizVars>>

\* ------------------------------------- sendMessage, earlier copy of the class
\* (chat.js lines 252-392: one fetch, no retry; the user bubble is appended
\* before the try block and the flag is reset by a statement after the
\* try/catch)

\* errorMessage chosen by the catch block from the type of the error
EarlierErrMessage(kind) ==
    CASE kind = "reject"  -> <<"Network connection error. Please check your internet connection and try again.">>
      [] kind = "badjson" -> <<"Server response error. Please refresh the page and try again.">>
      [] OTHER            -> <<"I apologize, but I encountered an unexpected error. Please try again.">>

\* `this.isGenerating = false` after the try/catch: reached unless an exception
\* left sendMessage before it (the flag is true at this point)
EarlierReset(raised) == raised

\* lines 272-288: clear the input, raise the flag, append the user bubble and
\* the loading bubble, all before the try block; then the request is issued
EarlierGenerate(c, prompt, d, sess, f) ==
    /\ chatInput' = <<>>
    /\ IF f = "dom"
       THEN /\ isGenerating' = TRUE
            /\ dom' = d
            /\ calls' = [Forget(calls) EXCEPT ![c] =
                   [Settled(IdleCall, "error", FALSE) EXCEPT !.rejected = TRUE]]
       ELSE LET d2 == AddLoadingMessage(AddMessage(d, prompt, "user", FALSE), c)
            IN /\ isGenerating' = TRUE
               /\ dom' = d2
               /\ calls' = [Forget(calls) EXCEPT ![c] =
                      Tally([IdleCall EXCEPT !.pc = "generate", !.prompt = prompt,
                                             !.sid = sess, !.attempt = 1],
                            d, d2)]

\* sendMessage(), earlier copy: the same entry guard and the same awaits of
\* startNewChat(false) before the flag is raised
EarlierSendMessage(c, f) ==
    /\ c = ncalls + 1
    /\ SendGuard(chatInput, isGenerating)
    /\ IF currentSessionId = None /\ isLoggedIn
       THEN /\ calls' = [Forget(calls) EXCEPT ![c] =
                   [IdleCall EXCEPT !.pc = "newSession1", !.prompt = Trim(chatInput)]]
            /\ UNCHANGED <<chatInput, dom, isGenerating>>
       ELSE EarlierGenerate(c, Trim(chatInput), dom, currentSessionId, f)
    /\ ncalls' = c
    /\ UNCHANGED <<isLoggedIn, faultsOn, currentSessionId, sidebar, nsessions, loads,
                   newChats, nrejects, panelVars, dbVars, wizVars>>

\* /new-session answered while the earlier sendMessage awaits startNewChat(false)
EarlierNewSessionDone(c, ok, f) ==
    /\ calls[c].pc \in {"newSession1", "newSession2"}
    /\ ok => nsessions < MaxNewSessions
    /\ LET id == CreatedSessionId(ok, nsessions)
       IN /\ sidebar' = IF ok THEN AddChatToSidebar(sidebar, NewChatEntry(id)) ELSE sidebar
          /\ nsessions' = IF ok THEN nsessions + 1 ELSE nsessions
          /\ currentSessionId' = id
          /\ IF calls[c].pc = "newSession1" /\ isLoggedIn /\ id = None
             THEN /\ calls' = [calls EXCEPT ![c].pc = "newSession2"]
                  /\ UNCHANGED <<chatInput, isGenerating, dom>>
             ELSE EarlierGenerate(c, calls[c].prompt, dom, id, f)
    /\ UNCHANGED <<isLoggedIn, faultsOn, ncalls, loads, newChats, nrejects, panelVars, dbVars, wizVars>>

\* the /generate fetch of the earlier copy ends: res is "response" (2xx with a
\* reply), "notok" (non-2xx with a JSON body), "reject" (fetch rejects) or
\* "badjson" (the body is not JSON).  try: drop the loading bubble, append the
\* reply or the error body; catch: drop the loading bubble, append the error
\* message (not guarded); then the flag is reset.
EarlierAnswered(c, res, f) ==
    /\ calls[c].pc = "generate"
    /\ LET d0 == RemoveLoadingMessage(dom, c)
           tryThrew == CASE res = "response" -> f # "none"
                         [] res = "notok"    -> f = "dom"
                         [] OTHER            -> TRUE
           catchThrew == tryThrew /\ f = "dom"
           kind == IF res \in {"reject", "badjson"} THEN res ELSE "other"
           d1 == IF catchThrew THEN d0
                 ELSE IF tryThrew THEN AddMessage(d0, EarlierErrMessage(kind), "ai", TRUE)
                 ELSE IF res = "response" THEN AddMessage(d0, ResponseText, "ai", FALSE)
                 ELSE AddMessage(d0, DefaultErrorText, "ai", TRUE)
       IN /\ dom' = d1
          /\ sidebar' = IF res = "response" /\ ~tryThrew /\ isLoggedIn /\ currentSessionId # None
                        THEN UpdateChatTitleInSidebar(sidebar, currentSessionId, calls[c].prompt)
                        ELSE sidebar
          /\ calls' = [calls EXCEPT ![c] =
                 Tally([Settled(@, IF res = "response" /\ ~tryThrew THEN "response" ELSE "error",
                                FALSE)
                          EXCEPT !.rejected = catchThrew],
                       dom, d1)]
          /\ isGenerating' = EarlierReset(catchThrew)
    /\ UNCHANGED <<isLoggedIn, faultsOn, currentSessionId, chatInput,
                   ncalls, nsessions, loads, newChats, nrejects, panelVars, dbVars, wizVars>>

\* ------------------------------------------------------ other chat handlers
\* the user edits the input box
TypeInput(t) ==
    /\ t # chatInput
    /\ chatInput' = t
    /\ UNCHANGED <<isLoggedIn, faultsOn, currentSessionId, isGenerating, dom, sidebar,
                   calls, ncalls, nsessions, loads, newChats, nrejects, panelVars, dbVars, wizVars>>

\* variant: the scan runs from the top and stops at the first user bubble
FirstUserMessage(d) ==
    LET i == CHOOSE j \in 1..Len(d) :
                 d[j].sender = "user" /\ \A k \in 1..(j - 1) : d[k].sender # "user"
    IN d[i].content

\* last user bubble of the conversation (regenerateResponse scans backwards)
HasUserMessage(d) == \E i \in 1..Len(d) : d[i].sender = "user"
LastUserMessage(d) ==
    LET i == CHOOSE j \in 1..Len(d) :
                 d[j].sender = "user" /\ \A k \in (j + 1)..Len(d) : d[k].sender # "user"
    IN d[i].content

\* querySelector('.message-ai:last-child')?.remove(): the last element of the
\* conversation goes if it is an ai bubble
RemoveLastAi(d) ==
    IF d # <<>> /\ d[Len(d)].sender = "ai" THEN SubSeq(d, 1, Len(d) - 1) ELSE d

\* addActionButtons(): every reply that is not an error bubble carries a
\* regenerate button
HasRegenerateButton(d) ==
    \E i \in 1..Len(d) : d[i].sender = "ai" /\ ~d[i].isError /\ d[i].loading = 0

\* regenerateResponse(): the regenerate button of a reply; returns at once
\* while generating or when no user bubble with text is found
RegenerateResponse(c, f) ==
    /\ HasRegenerateButton(dom)
    /\ ~isGenerating
    /\ HasUserMessage(dom)
    /\ LastUserMessage(dom) # << >>
    /\ c = ncalls + 1
    /\ LET text == LastUserMessage(dom)
           d1 == RemoveLastAi(dom)
       IN IF Trim(text) # <<>>
          THEN /\ StartSend(c, text, d1, f)
               /\ ncalls' = c
          ELSE /\ chatInput' = text
               /\ dom' = d1
               /\ UNCHANGED <<isGenerating, calls, ncalls>>
    /\ UNCHANGED <<isLoggedIn, faultsOn, currentSessionId, sidebar, nsessions, loads,
                   newChats, nrejects, panelVars, dbVars, wizVars>>

\* startNewChat(true): the New Chat button.  The pointer is nulled at once; a
\* logged-in client then awaits /new-session.
StartNewChat ==
    /\ newChats < MaxNewChats
    /\ currentSessionId' = None
    /\ IF isLoggedIn
       THEN /\ newChats' = newChats + 1
            /\ UNCHANGED <<dom, chatInput>>
       ELSE /\ dom' = ClearChatMessages
            /\ chatInput' = <<>>
            /\ UNCHANGED newChats
    /\ UNCHANGED <<isLoggedIn, faultsOn, isGenerating, sidebar, calls, ncalls, nsessions,
                   loads, nrejects, panelVars, dbVars, wizVars>>

\* /new-session answered for a stand-alone startNewChat(true)
NewChatDone(ok) ==
    /\ newChats > 0
    /\ ok => nsessions < MaxNewSessions
    /\ LET id == CreatedSessionId(ok, nsessions)
       IN /\ currentSessionId' = id
          /\ sidebar' = IF ok THEN AddChatToSidebar(sidebar, NewChatEntry(id)) ELSE sidebar
          /\ nsessions' = IF ok THEN nsessions + 1 ELSE nsessions
    /\ dom' = ClearChatMessages
    /\ chatInput' = <<>>
    /\ newChats' = newChats - 1
    /\ UNCHANGED <<isLoggedIn, faultsOn, isGenerating, calls, ncalls, loads, nrejects, panelVars, dbVars, wizVars>>

\* variant: the active session is fetched again like any other
LoadChatReturnsNever(cur, s) == FALSE

\* loadChat, line 2416: if (this.currentSessionId === sessionId) return
LoadChatReturns(cur, s) == cur = s

\* loadChat(sessionId): a click on a sidebar entry; returns at once for the
\* active session, otherwise awaits GET /chat/<id>
LoadChatWithin(s, limit) ==
    /\ s \in SidebarIds(sidebar)
    /\ ~LoadChatReturns(currentSessionId, s)
    /\ s \notin loads
    /\ Cardinality(loads) < limit
    /\ loads' = loads \cup {s}
    /\ lastLoad' = s
    /\ UNCHANGED <<isLoggedIn, faultsOn, currentSessionId, isGenerating, chatInput, dom,
                   sidebar, calls, ncalls, nsessions, newChats, nrejects, deletes, ndeletes,
                   modeVars, historyPending, dbVars, wizVars>>

\* at most MaxLoads fetches of loadChat are pending at a time
LoadChat(s) == LoadChatWithin(s, MaxLoads)

\* GET /chat/<id> answered: the conversation shown is replaced by the loaded
\* one; on failure the pointer is nulled and startNewChat() is awaited
LoadChatDone(s, ok, msgs) ==
    /\ s \in loads
    /\ ~ok => newChats < MaxNewChats
    /\ loads' = loads \ {s}
    /\ IF ok
       THEN /\ currentSessionId' = s
            /\ dom' = AddAll(ClearChatMessages, msgs)
            /\ UNCHANGED newChats
       ELSE /\ currentSessionId' = None
            /\ dom' = ClearChatMessages
            /\ newChats' = newChats + 1
    /\ UNCHANGED <<isLoggedIn, faultsOn, isGenerating, chatInput, sidebar, calls, ncalls,
                   nsessions, nrejects, panelVars, dbVars, wizVars>>

\* window 'unhandledrejection' (setupGlobalErrorHandlers, then the listener
\* added on DOMContentLoaded): a promise rejected anywhere on the page with no
\* handler.  While generating, the first listener lowers the flag, removes
\* every loading bubble and appends an error bubble; the second listener then
\* finds the flag lowered and does nothing.
UnhandledRejection(f) ==
    /\ isGenerating
    /\ isGenerating' = FALSE
    /\ dom' = IF f = "dom"
              THEN RemoveAllLoading(dom)
              ELSE AddMessage(RemoveAllLoading(dom), ConnectionErrorText, "ai", TRUE)
    /\ UNCHANGED <<isLoggedIn, faultsOn, currentSessionId, chatInput, sidebar, calls, ncalls,
                   nsessions, loads, newChats, nrejects, panelVars, dbVars, wizVars>>

\* window 'error' (setupGlobalErrorHandlers): an exception no script on the
\* page caught.  While generating, the flag is lowered.
GlobalError ==
    /\ isGenerating
    /\ isGenerating' = FALSE
    /\ UNCHANGED <<isLoggedIn, faultsOn, currentSessionId, chatInput, dom, sidebar, calls,
                   ncalls, nsessions, loads, newChats, nrejects, panelVars, dbVars, wizVars>>

\* variant: a click while any mode is active only deselects
ToggleModeOff(cur, mode) == IF cur # None THEN None ELSE mode

\* selectMode, lines 1641-1648: the value of this.currentMode after a click on
\* the button of `mode`
ToggleMode(cur, mode) == IF cur = mode THEN None ELSE mode

\* selectMode(button): a click on a mode button toggles that mode
SelectMode(mode) ==
    /\ currentMode' = ToggleMode(currentMode, mode)
    /\ activeModeButtons' = IF currentMode = mode
                            THEN activeModeButtons \ {mode}
                            ELSE {mode}
    /\ UNCHANGED <<isLoggedIn, faultsOn, currentSessionId, isGenerating, chatInput, dom,
                   sidebar, calls, ncalls, nsessions, loads, newChats, nrejects, deletes,
                   ndeletes, selectedBrandVoice, lastLoad, historyPending, dbVars, wizVars>>

\* selectBrandVoice(value, name): a click on an entry of the voice dropdown
SelectBrandVoice(value) ==
    /\ value # selectedBrandVoice
    /\ selectedBrandVoice' = value
    /\ UNCHANGED <<isLoggedIn, faultsOn, currentSessionId, isGenerating, chatInput, dom,
                   sidebar, calls, ncalls, nsessions, loads, newChats, nrejects, deletes,
                   ndeletes, currentMode, activeModeButtons, lastLoad, historyPending, dbVars, wizVars>>

\* the sidebar without the entry of session s
RemoveSession(sb, s) == SelectSeq(sb, LAMBDA e : e.id # s)

\* deleteSession(sessionId): the x button of a sidebar entry; the user accepts
\* or declines the confirm() dialog, after acceptance the DELETE is awaited
DeleteSession(s, confirmed) ==
    /\ s \in SidebarIds(sidebar)
    /\ s \notin deletes
    /\ ndeletes < MaxDeletes
    /\ ndeletes' = ndeletes + 1
    /\ deletes' = IF confirmed THEN deletes \cup {s} ELSE deletes
    /\ UNCHANGED <<isLoggedIn, faultsOn, currentSessionId, isGenerating, chatInput, dom,
                   sidebar, calls, ncalls, nsessions, loads, newChats, nrejects, modeVars,
                   lastLoad, historyPending, dbVars, wizVars>>

\* variant: any active session counts as the deleted one
IsActiveSessionAny(cur, s) == cur # None

\* deleteSession, line 2545: this.currentSessionId === sessionId, tested when
\* the DELETE has been answered
IsActiveSession(cur, s) == cur = s

\* DELETE /api/chat-sessions/<id> answered.  A 2xx answer removes the sidebar
\* entry; if the session was the active one the pointer is nulled, the
\* messages are cleared and deleteSession goes on to await loadChat() of the
\* first remaining entry, or startNewChat() when none remains.  Any other
\* answer is only logged.
DeleteDone(s, ok) ==
    /\ s \in deletes
    /\ deletes' = deletes \ {s}
    /\ LET remaining == RemoveSession(sidebar, s)
           wasActive == IsActiveSession(currentSessionId, s)
       IN IF ~ok
          THEN UNCHANGED <<sidebar, currentSessionId, dom, loads, newChats, lastLoad>>
          ELSE /\ sidebar' = remaining
               /\ IF ~wasActive
                  THEN UNCHANGED <<currentSessionId, dom, loads, newChats, lastLoad>>
                  ELSE /\ currentSessionId' = None
                       /\ dom' = ClearChatMessages
                       /\ IF remaining # << >>
                          THEN /\ remaining[1].id \notin loads
                               /\ Cardinality(loads) < MaxLoads
                               /\ loads' = loads \cup {remaining[1].id}
                               /\ lastLoad' = remaining[1].id
                               /\ UNCHANGED newChats
                          ELSE /\ newChats < MaxNewChats
                               /\ newChats' = newChats + 1
                               /\ UNCHANGED <<loads, lastLoad>>
    /\ UNCHANGED <<isLoggedIn, faultsOn, isGenerating, chatInput, calls, ncalls,
                   nsessions, nrejects, ndeletes, modeVars, historyPending, dbVars, wizVars>>

\* the sessions the server stores for the user
StoredSessions == {"s0", "s9"}

StoredChat(id, title, count) == [id |-> id, title |-> title, count |-> count]

\* answers of GET /chat-history: lists of stored sessions, one of them naming
\* a session twice
HistoryLists ==
    { << >>,
      << StoredChat("s0", <<"o">>, 2) >>,
      << StoredChat("s0", <<"o">>, 2), StoredChat("s9", <<"p">>, 2) >>,
      << StoredChat("s0", <<"o">>, 2), StoredChat("s9", <<"p">>, 2),
         StoredChat("s0", <<"q">>, 4) >> }

\* chats.forEach(chat => this.addChatToSidebar(chat))
RECURSIVE AddChats(_, _)
AddChats(sb, chats) ==
    IF chats = << >> THEN sb
    ELSE AddChats(AddChatToSidebar(sb, Head(chats)), Tail(chats))

\* loadChatHistory(), called by the constructor: GET /chat-history answered.
\* The sidebar is emptied and refilled from the answer; the messages on
\* display are cleared whether the fetch succeeded or failed.
LoadChatHistoryDone(ok, chats) ==
    /\ historyPending
    /\ historyPending' = FALSE
    /\ sidebar' = IF ok THEN AddChats(<< >>, chats) ELSE sidebar
    /\ dom' = ClearChatMessages
    /\ UNCHANGED <<isLoggedIn, faultsOn, currentSessionId, isGenerating, chatInput, calls,
                   ncalls, nsessions, loads, newChats, nrejects, deletes, ndeletes, modeVars,
                   lastLoad, dbVars, wizVars>>

\* ---------------------------------------------------------- BrandVoiceWizard
Fields == {"company_name", "company_url", "voice_short_name"}

\* values an input event can leave in a field
FieldValues(fld) ==
    CASE fld = "company_name"     -> { <<>>, <<"x">>, <<"y">> }
      [] fld = "company_url"      -> { <<>>, <<"u">> }
      [] fld = "voice_short_name" -> { <<>>, <<" ">>, <<"v">> }

EmptyForm == [fld \in Fields |-> <<>>]

FreshProfiles == <<"p1", "p2", "p3", "p4", "p5", "p6">>

\* variant: the required inputs are tested without trim()
ValidateStep1Untrimmed(fm) == \A fld \in Fields : Len(fm[fld]) > 0

\* variant: a required input needs at least two characters
ValidateStep1Strict(fm) == \A fld \in Fields : Len(Trim(fm[fld])) > 1

\* validateStep1(): the three required inputs are non-blank after trim()
ValidateStep1(fm) == \A fld \in Fields : Len(Trim(fm[fld])) > 0

\* validateStep1() marks every required input that holds text: is-valid when
\* it is non-blank after trim(), is-invalid otherwise; an empty input keeps the
\* class it has
UpdateValidationUI(fm, marks) ==
    [fld \in Fields |->
        IF Len(fm[fld]) > 0
        THEN (IF Len(Trim(fm[fld])) > 0 THEN "is-valid" ELSE "is-invalid")
        ELSE marks[fld]]

\* collectFormData(): the name/value pairs of the form as they are now
CollectFormData(fm) == [fld \in Fields |-> fm[fld]]

\* body of the /auto-save-brand-voice request built by autoSave()
AutoSaveRequest(fm, pid) ==
    [data |-> CollectFormData(fm), auto_save |-> TRUE, profile_id |-> pid]

\* variant: the pending timer is not cleared
ScheduleWithoutClear(tm, old, new) ==
    [h \in DOMAIN tm \cup {new} |-> IF h = new THEN AutoSaveDelayMs ELSE tm[h]]

\* scheduleAutoSave(): clearTimeout(this.autoSaveTimeout), then a new timer
ScheduleAutoSave(tm, old, new) ==
    [h \in (DOMAIN tm \ {old}) \cup {new} |-> IF h = new THEN AutoSaveDelayMs ELSE tm[h]]

\* a timer callback that is due runs before any event that arrives later
NoTimerDue == \A h \in DOMAIN timers : timers[h] > 0

\* whether a scheduleAutoSave call now follows the previous one by less than T
ContinuesBurst == nedits > 0 /\ sinceUpdate < AutoSaveDelayMs

\* a redirect set by handleSubmit() is due
RedirectDue == \E i \in DOMAIN redirectTimer : redirectTimer[i] = 0

Scheduled ==
    /\ ~unloaded
    /\ nedits < MaxEdits
    /\ NoTimerDue /\ ~RedirectDue
    /\ timers' = ScheduleAutoSave(timers, autoSaveTimeout, nedits + 1)
    /\ autoSaveTimeout' = nedits + 1
    /\ nedits' = nedits + 1
    /\ sinceUpdate' = 0
    /\ burstFires' = IF ContinuesBurst THEN burstFires ELSE 0
    /\ burstPayload' = IF ContinuesBurst THEN burstPayload ELSE <<>>
    /\ burstCalls' = IF ContinuesBurst THEN burstCalls + 1 ELSE 1

\* 'input' event of a required field: the value changes, the validation
\* listener runs validateStep1(), then scheduleAutoSave() runs
FieldInput(fld, v) ==
    /\ v # form[fld]
    /\ form' = [form EXCEPT ![fld] = v]
    /\ validity' = UpdateValidationUI(form', validity)
    /\ Scheduled
    /\ UNCHANGED <<saves, profileId, nprofiles, saveIndicator, saveAnswer, chatVars, dbVars,
                   submitVars>>

\* 'change' event of a form field (on blur): scheduleAutoSave() runs again
FieldChange ==
    /\ Scheduled
    /\ UNCHANGED <<form, validity, saves, profileId, nprofiles, saveIndicator,
                   saveAnswer, chatVars, dbVars, submitVars>>

\* the debounce timer fires: autoSave() returns early unless step 1 validates,
\* otherwise it posts the form as it is now and awaits the answer
AutoSaveTimer(h) ==
    /\ ~unloaded
    /\ h \in DOMAIN timers
    /\ timers[h] = 0
    /\ timers' = [k \in DOMAIN timers \ {h} |-> timers[k]]
    /\ burstFires' = burstFires + 1
    /\ validity' = UpdateValidationUI(form, validity)
    /\ IF ValidateStep1(form)
       THEN /\ saves' = Append(saves, AutoSaveRequest(form, profileId))
            /\ burstPayload' = <<AutoSaveRequest(form, profileId).data>>
       ELSE UNCHANGED <<saves, burstPayload>>
    /\ UNCHANGED <<form, autoSaveTimeout, nedits, profileId, nprofiles, saveIndicator,
                   sinceUpdate, burstCalls, saveAnswer, chatVars, dbVars, submitVars>>

RemoveAt(q, i) == SubSeq(q, 1, i - 1) \o SubSeq(q, i + 1, Len(q))

\* the answer to one auto-save request: 2xx stores result.profile_id and shows
\* 'saved'; a non-2xx answer is dropped; a rejected fetch shows 'error'
AutoSaveResponse(i, res) ==
    /\ ~unloaded
    /\ i \in 1..Len(saves)
    /\ saves' = RemoveAt(saves, i)
    /\ saveAnswer' = res
    /\ CASE res = "ok" ->
              LET created == saves[i].profile_id = None
                  pid == IF created THEN FreshProfiles[nprofiles + 1] ELSE saves[i].profile_id
              IN /\ profileId' = pid
                 /\ nprofiles' = IF created THEN nprofiles + 1 ELSE nprofiles
                 /\ saveIndicator' = "saved"
         [] res = "notok" -> UNCHANGED <<profileId, nprofiles, saveIndicator>>
         [] res = "neterr" -> /\ saveIndicator' = "error"
                              /\ UNCHANGED <<profileId, nprofiles>>
    /\ UNCHANGED <<form, autoSaveTimeout, timers, nedits, sinceUpdate, burstFires,
                   burstPayload, burstCalls, validity, chatVars, dbVars, submitVars>>

Min(a, b) == IF a < b THEN a ELSE b
Max(a, b) == IF a > b THEN a ELSE b

\* TickMs of time pass
Tick ==
    /\ ~unloaded
    /\ NoTimerDue
    /\ ~RedirectDue
    /\ DOMAIN timers # {} \/ sinceUpdate < AutoSaveDelayMs \/ redirectTimer # << >>
    /\ timers' = [h \in DOMAIN timers |-> Max(0, timers[h] - TickMs)]
    /\ sinceUpdate' = Min(AutoSaveDelayMs, sinceUpdate + TickMs)
    /\ redirectTimer' = [i \in DOMAIN redirectTimer |-> Max(0, redirectTimer[i] - TickMs)]
    /\ UNCHANGED <<form, autoSaveTimeout, nedits, saves, profileId, nprofiles,
                   saveIndicator, burstFires, burstPayload, burstCalls, validity, chatVars, dbVars,
                   saveAnswer, currentStep, isSubmitting, creates, nsubmits, unloaded>>

\* changeStep() after a failed step-1 validation marks all three required
\* inputs, the empty ones included
ForceValidationUI(fm) ==
    [fld \in Fields |-> IF Len(Trim(fm[fld])) > 0 THEN "is-valid" ELSE "is-invalid"]

\* variant: no step has required inputs
ValidateCurrentStepNone(step, fm) == TRUE

\* validateCurrentStep(): only step 1 has required inputs
ValidateCurrentStep(step, fm) == IF step = 1 THEN ValidateStep1(fm) ELSE TRUE

\* validateCurrentStep() runs validateStep1(), which rewrites the marks, at step 1
MarksAtStep(step, fm, marks) == IF step = 1 THEN UpdateValidationUI(fm, marks) ELSE marks

\* changeStep(direction) of the Next (+1) and Previous (-1) buttons
ChangeStep(direction) ==
    /\ ~unloaded
    /\ NoTimerDue /\ ~RedirectDue
    /\ LET newStep == currentStep + direction IN
       IF newStep < 1 \/ newStep > TotalSteps
       THEN UNCHANGED <<currentStep, validity>>
       ELSE IF direction > 0 /\ ~ValidateCurrentStep(currentStep, form)
       THEN /\ validity' = ForceValidationUI(form)
            /\ UNCHANGED currentStep
       ELSE /\ currentStep' = newStep
            /\ validity' = MarksAtStep(newStep, form,
                                       IF direction > 0
                                       THEN MarksAtStep(currentStep, form, validity)
                                       ELSE validity)
    /\ UNCHANGED <<form, autoSaveTimeout, timers, nedits, saves, profileId, nprofiles,
                   saveIndicator, sinceUpdate, burstFires, burstPayload, burstCalls,
                   isSubmitting, creates, nsubmits, redirectTimer, unloaded, saveAnswer, chatVars, dbVars>>

\* validateRequiredFields(): the three required inputs are non-blank
ValidateRequiredFields(fm) == \A fld \in Fields : Len(Trim(fm[fld])) > 0

\* body of the /create-brand-voice request built by handleSubmit(); the
\* wizard was opened to create a voice (isEditing is false), so no
\* brand_voice_id is added
CreateRequest(fm) == [data |-> CollectFormData(fm), voice_type |-> "company"]

\* 'submit' event of the form: handleSubmit() up to its fetch
HandleSubmit ==
    /\ ~unloaded
    /\ NoTimerDue /\ ~RedirectDue
    /\ nsubmits < MaxSubmits
    /\ nsubmits' = nsubmits + 1
    /\ IF ~ValidateRequiredFields(form)
       THEN /\ currentStep' = 1
            /\ validity' = UpdateValidationUI(form, validity)
            /\ UNCHANGED <<isSubmitting, creates>>
       ELSE IF isSubmitting
       THEN UNCHANGED <<currentStep, validity, isSubmitting, creates>>
       ELSE /\ isSubmitting' = TRUE
            /\ creates' = Append(creates, CreateRequest(form))
            /\ UNCHANGED <<currentStep, validity>>
    /\ UNCHANGED <<form, autoSaveTimeout, timers, nedits, saves, profileId, nprofiles,
                   saveIndicator, sinceUpdate, burstFires, burstPayload, burstCalls,
                   redirectTimer, unloaded, saveAnswer, chatVars, dbVars>>

\* the answer to /create-brand-voice: on result.success the profile id is
\* forgotten and the redirect is set RedirectDelayMs ahead; a refusal, a
\* non-2xx answer and a rejected fetch only raise an alert; the finally block
\* clears isSubmitting in every case
SubmitResponse(res) ==
    /\ ~unloaded
    /\ NoTimerDue /\ ~RedirectDue
    /\ creates # << >>
    /\ creates' = Tail(creates)
    /\ isSubmitting' = FALSE
    /\ IF res = "success"
       THEN /\ profileId' = None
            /\ redirectTimer' = Append(redirectTimer, RedirectDelayMs)
       ELSE UNCHANGED <<profileId, redirectTimer>>
    /\ UNCHANGED <<form, autoSaveTimeout, timers, nedits, saves, nprofiles,
                   saveIndicator, sinceUpdate, burstFires, burstPayload, burstCalls,
                   validity, currentStep, nsubmits, unloaded, saveAnswer, chatVars, dbVars>>

\* the redirect timer fires: window.location.href = '/brand-voices' leaves the
\* page, and with it every timer and every pending callback of the wizard
Redirect ==
    /\ ~unloaded
    /\ RedirectDue
    /\ unloaded' = TRUE
    /\ UNCHANGED <<form, autoSaveTimeout, timers, nedits, saves, profileId, nprofiles,
                   saveIndicator, sinceUpdate, burstFires, burstPayload, burstCalls,
                   validity, currentStep, isSubmitting, creates, nsubmits, redirectTimer,
                   saveAnswer, chatVars, dbVars>>

\* --------------------------------- BrandVoiceWizard, earlier copy of the class
\* 'input' event of a required field in the earlier copy: validateStep1()
\* marks all three inputs, then scheduleAutoSave() runs
EarlierFieldInput(fld, v) ==
    /\ v # form[fld]
    /\ form' = [form EXCEPT ![fld] = v]
    /\ validity' = ForceValidationUI(form')
    /\ Scheduled
    /\ UNCHANGED <<saves, profileId, nprofiles, saveIndicator, saveAnswer, chatVars, dbVars,
                   submitVars>>

\* changeStep(direction) of the earlier copy (lines 580-599)
EarlierChangeStep(direction) ==
    /\ ~unloaded
    /\ NoTimerDue /\ ~RedirectDue
    /\ LET newStep == currentStep + direction
           validated == direction > 0 /\ currentStep = 1
       IN IF newStep < 1 \/ newStep > TotalSteps
          THEN UNCHANGED <<currentStep, validity>>
          ELSE /\ validity' = IF validated THEN ForceValidationUI(form) ELSE validity
               /\ currentStep' = IF validated /\ ~ValidateStep1(form)
                                 THEN currentStep
                                 ELSE newStep
    /\ UNCHANGED <<form, autoSaveTimeout, timers, nedits, saves, profileId, nprofiles,
                   saveIndicator, sinceUpdate, burstFires, burstPayload, burstCalls,
                   isSubmitting, creates, nsubmits, redirectTimer, unloaded, saveAnswer, chatVars, dbVars>>

\* body of the /create-brand-voice request built by the earlier handleSubmit()
EarlierCreateRequest(fm, pid) == [data |-> CollectFormData(fm), profile_id |-> pid]

\* 'submit' event of the form in the earlier copy: handleSubmit() (lines
\* 691-743) up to its fetch.  The isSubmitting test comes first, the
\* validation second.
EarlierHandleSubmit ==
    /\ ~unloaded
    /\ NoTimerDue /\ ~RedirectDue
    /\ nsubmits < MaxSubmits
    /\ nsubmits' = nsubmits + 1
    /\ IF isSubmitting
       THEN UNCHANGED <<currentStep, validity, isSubmitting, creates>>
       ELSE IF ~ValidateStep1(form)
       THEN /\ currentStep' = 1
            /\ validity' = ForceValidationUI(form)
            /\ UNCHANGED <<isSubmitting, creates>>
       ELSE /\ isSubmitting' = TRUE
            /\ creates' = Append(creates, EarlierCreateRequest(form, profileId))
            /\ validity' = ForceValidationUI(form)
            /\ UNCHANGED currentStep
    /\ UNCHANGED <<form, autoSaveTimeout, timers, nedits, saves, profileId, nprofiles,
                   saveIndicator, sinceUpdate, burstFires, burstPayload, burstCalls,
                   redirectTimer, unloaded, saveAnswer, chatVars, dbVars>>

\* the answer to /create-brand-voice in the earlier copy: a 2xx answer sets
\* the redirect; any other answer, a body that is not JSON and a rejected
\* fetch only raise an alert; isSubmitting is cleared after the try/catch
EarlierSubmitResponse(res) ==
    /\ ~unloaded
    /\ NoTimerDue /\ ~RedirectDue
    /\ creates # << >>
    /\ creates' = Tail(creates)
    /\ isSubmitting' = FALSE
    /\ redirectTimer' = IF res = "ok" THEN Append(redirectTimer, RedirectDelayMs)
                        ELSE redirectTimer
    /\ UNCHANGED <<form, autoSaveTimeout, timers, nedits, saves, profileId, nprofiles,
                   saveIndicator, sinceUpdate, burstFires, burstPayload, burstCalls,
                   validity, currentStep, nsubmits, unloaded, saveAnswer, chatVars, dbVars>>

\* ------------------------------------------- row-level security (migration)
Users == {"u1", "u2"}              \* values of auth.uid()
DbSessionIds == {"d1", "d2"}       \* chat_sessions.session_id
DbMessageIds == {"m1", "m2"}       \* chat_messages.message_id
DbTitles == {"New Chat", "t"}      \* chat_sessions.title

SessionRows == [session_id : DbSessionIds, user_id : Users, title : DbTitles]
MessageRows == [message_id : DbMessageIds, session_id : DbSessionIds]

\* "Users can view own chat sessions": USING (auth.uid() = user_id)
SessionSelectPolicy(uid, row) == uid = row.user_id

\* "Users can create own chat sessions": WITH CHECK (auth.uid() = user_id)
SessionInsertPolicy(uid, row) == uid = row.user_id

\* "Users can update own chat sessions": USING and WITH CHECK
SessionUpdateUsing(uid, row) == uid = row.user_id
SessionUpdateCheck(uid, row) == uid = row.user_id

\* "Users can delete own chat sessions": USING (auth.uid() = user_id)
SessionDeletePolicy(uid, row) == uid = row.user_id

\* variant: the message policy only asks that the session exists
MessageSelectAnyOwner(uid, row, sessions) ==
    \E ses \in sessions : ses.session_id = row.session_id

\* "Users can view own chat messages": USING (EXISTS (SELECT 1 FROM
\* chat_sessions WHERE session_id = chat_messages.session_id AND user_id =
\* auth.uid()))
MessageSelectPolicy(uid, row, sessions) ==
    \E ses \in sessions : ses.session_id = row.session_id /\ ses.user_id = uid

\* "Users can create own chat messages": WITH CHECK (EXISTS ...)
MessageInsertPolicy(uid, row, sessions) ==
    \E ses \in sessions : ses.session_id = row.session_id /\ ses.user_id = uid

\* chat_messages has no UPDATE and no DELETE policy: with row-level security
\* enabled, a command without a policy is denied
MessageDeletePolicy(uid, row, sessions) == FALSE

\* the owner of the session a message belongs to (the foreign key guarantees
\* that the session exists)
OwnerOfSession(sessions, sid) ==
    (CHOOSE ses \in sessions : ses.session_id = sid).user_id

\* the result of a statement that returns no rows
NoRows == [sessions |-> {}, messages |-> {}]

\* SELECT * FROM chat_sessions, as user uid
DbSelectSessions(uid) ==
    /\ dbActor' = uid
    /\ dbSeen' = [NoRows EXCEPT !.sessions =
                     {row \in dbSessions : SessionSelectPolicy(uid, row)}]
    /\ UNCHANGED <<dbSessions, dbMessages, chatVars, wizVars>>

\* INSERT INTO chat_sessions VALUES (row), as user uid; a row that fails the
\* policy's check aborts the statement
DbInsertSession(uid, row) ==
    /\ \A ses \in dbSessions : ses.session_id # row.session_id
    /\ dbActor' = uid
    /\ dbSeen' = NoRows
    /\ dbSessions' = IF SessionInsertPolicy(uid, row)
                     THEN dbSessions \cup {row} ELSE dbSessions
    /\ UNCHANGED <<dbMessages, chatVars, wizVars>>

\* UPDATE chat_sessions SET user_id = new.user_id, title = new.title WHERE
\* session_id = new.session_id, as user uid: a row hidden by USING is not
\* touched, a new row that fails WITH CHECK aborts the statement
DbUpdateSession(uid, new) ==
    /\ \E old \in dbSessions :
          /\ old.session_id = new.session_id
          /\ old # new
          /\ dbSessions' = IF SessionUpdateUsing(uid, old) /\ SessionUpdateCheck(uid, new)
                           THEN (dbSessions \ {old}) \cup {new} ELSE dbSessions
    /\ dbActor' = uid
    /\ dbSeen' = NoRows
    /\ UNCHANGED <<dbMessages, chatVars, wizVars>>

\* DELETE FROM chat_sessions WHERE session_id = sid, as user uid; the
\* messages of a deleted session go with it (ON DELETE CASCADE)
DbDeleteSession(uid, sid) ==
    /\ \E old \in dbSessions :
          /\ old.session_id = sid
          /\ IF SessionDeletePolicy(uid, old)
             THEN /\ dbSessions' = dbSessions \ {old}
                  /\ dbMessages' = {msg \in dbMessages : msg.session_id # sid}
             ELSE UNCHANGED <<dbSessions, dbMessages>>
    /\ dbActor' = uid
    /\ dbSeen' = NoRows
    /\ UNCHANGED <<chatVars, wizVars>>

\* SELECT * FROM chat_messages, as user uid; what is seen is kept with the
\* owner of the message's session
DbSelectMessages(uid) ==
    /\ dbActor' = uid
    /\ dbSeen' = [NoRows EXCEPT !.messages =
                     {[row |-> row, owner |-> OwnerOfSession(dbSessions, row.session_id)] :
                         row \in {r \in dbMessages : MessageSelectPolicy(uid, r, dbSessions)}}]
    /\ UNCHANGED <<dbSessions, dbMessages, chatVars, wizVars>>

\* INSERT INTO chat_messages VALUES (row), as user uid
DbInsertMessage(uid, row) ==
    /\ \A msg \in dbMessages : msg.message_id # row.message_id
    /\ \E ses \in dbSessions : ses.session_id = row.session_id
    /\ dbActor' = uid
    /\ dbSeen' = NoRows
    /\ dbMessages' = IF MessageInsertPolicy(uid, row, dbSessions)
                     THEN dbMessages \cup {row} ELSE dbMessages
    /\ UNCHANGED <<dbSessions, chatVars, wizVars>>

\* DELETE FROM chat_messages WHERE message_id = mid, as user uid
DbDeleteMessage(uid, mid) ==
    /\ \E old \in dbMessages :
          /\ old.message_id = mid
          /\ dbMessages' = IF MessageDeletePolicy(uid, old, dbSessions)
                           THEN dbMessages \ {old} ELSE dbMessages
    /\ dbActor' = uid
    /\ dbSeen' = NoRows
    /\ UNCHANGED <<dbSessions, chatVars, wizVars>>

\* ------------------------------------------------------------ specifications
InitWizard ==
    /\ form = EmptyForm
    /\ profileId = None
    /\ autoSaveTimeout = None
    /\ timers = << >>
    /\ nedits = 0
    /\ saves = << >>
    /\ nprofiles = 0
    /\ saveIndicator = "none"
    /\ sinceUpdate = AutoSaveDelayMs
    /\ burstFires = 0
    /\ burstPayload = << >>
    /\ burstCalls = 0
    /\ validity = [fld \in Fields |-> "none"]
    /\ saveAnswer = "none"
    /\ currentStep = 1
    /\ isSubmitting = FALSE
    /\ creates = << >>
    /\ nsubmits = 0
    /\ redirectTimer = << >>
    /\ unloaded = FALSE

InitChat ==
    /\ isLoggedIn \in BOOLEAN
    /\ currentSessionId = None
    /\ isGenerating = FALSE
    /\ chatInput = << >>
    /\ dom = << >>
    /\ sidebar = IF isLoggedIn
                 THEN << [id |-> "s0", title |-> <<"o">>, count |-> 2] >>
                 ELSE << >>
    /\ calls = [c \in Calls |-> IdleCall]
    /\ ncalls = 0
    /\ nsessions = 0
    /\ loads = {}
    /\ newChats = 0
    /\ nrejects = 0
    /\ deletes = {}
    /\ ndeletes = 0
    /\ currentMode = None
    /\ selectedBrandVoice = ""
    /\ activeModeButtons = {}
    /\ lastLoad = None
    /\ historyPending = FALSE

\* the two chat tables as the migration creates them
InitDb ==
    /\ dbSessions = {}
    /\ dbMessages = {}
    /\ dbSeen = NoRows
    /\ dbActor = None

\* the page of a signed-in user right after construction: loadChatHistory has
\* issued GET /chat-history and the sidebar is still empty
InitFresh ==
    /\ isLoggedIn = TRUE
    /\ faultsOn = FALSE
    /\ currentSessionId = None
    /\ isGenerating = FALSE
    /\ chatInput = << >>
    /\ dom = << >>
    /\ sidebar = << >>
    /\ calls = [c \in Calls |-> IdleCall]
    /\ ncalls = 0
    /\ nsessions = 0
    /\ loads = {}
    /\ newChats = 0
    /\ nrejects = 0
    /\ deletes = {}
    /\ ndeletes = 0
    /\ currentMode = None
    /\ selectedBrandVoice = ""
    /\ activeModeButtons = {}
    /\ lastLoad = None
    /\ historyPending = TRUE
    /\ InitWizard
    /\ InitDb

Init == InitChat /\ InitWizard /\ InitDb /\ faultsOn = FALSE

InitFaults == InitChat /\ InitWizard /\ InitDb /\ faultsOn = TRUE

\* every chat handler; at most MaxTurns messages are submitted
Next ==
    \/ \E c \in 1..MaxTurns, f \in FaultChoices : SendMessage(c, f)
    \/ \E c \in Calls, ok \in BOOLEAN, f \in FaultChoices : NewSessionDone(c, ok, f)
    \/ \E c \in Calls, f \in FaultChoices : FetchNetworkError(c, f)
    \/ \E c \in Calls, f \in FaultChoices : FetchTimeout(c, f)
    \/ \E c \in Calls, ok \in BOOLEAN : FetchHeaders(c, ok)
    \/ \E c \in Calls, f \in FaultChoices : ErrBodyDone(c, f)
    \/ \E c \in Calls, f \in FaultChoices : BodyMalformed(c, f)
    \/ \E c \in Calls, hasResponse \in BOOLEAN, f \in FaultChoices : BodyParsed(c, hasResponse, f)
    \/ \E c \in Calls : BackoffDone(c)
    \/ \E t \in InputTexts : TypeInput(t)
    \/ \E c \in 1..MaxTurns, f \in FaultChoices : RegenerateResponse(c, f)
    \/ StartNewChat
    \/ \E ok \in BOOLEAN : NewChatDone(ok)
    \/ \E s \in ExistingSessions \cup {FreshIds[i] : i \in 1..MaxNewSessions} : LoadChat(s)
    \/ \E s \in loads, ok \in BOOLEAN, msgs \in StoredHistories : LoadChatDone(s, ok, msgs)
    \/ \E s \in SidebarIds(sidebar), confirmed \in BOOLEAN : DeleteSession(s, confirmed)
    \/ \E s \in deletes, ok \in BOOLEAN : DeleteDone(s, ok)

\* submitting and regenerating only (no session switch); at most MaxCalls
\* messages are submitted
NextSubmit ==
    \/ \E c \in 1..MaxCalls, f \in FaultChoices : SendMessage(c, f)
    \/ \E c \in Calls, ok \in BOOLEAN, f \in FaultChoices : NewSessionDone(c, ok, f)
    \/ \E c \in Calls, f \in FaultChoices : FetchNetworkError(c, f)
    \/ \E c \in Calls, f \in FaultChoices : FetchTimeout(c, f)
    \/ \E c \in Calls, ok \in BOOLEAN : FetchHeaders(c, ok)
    \/ \E c \in Calls, f \in FaultChoices : ErrBodyDone(c, f)
    \/ \E c \in Calls, f \in FaultChoices : BodyMalformed(c, f)
    \/ \E c \in Calls, hasResponse \in BOOLEAN, f \in FaultChoices : BodyParsed(c, hasResponse, f)
    \/ \E c \in Calls : BackoffDone(c)
    \/ \E t \in InputTexts : TypeInput(t)
    \/ \E c \in 1..MaxCalls, f \in FaultChoices : RegenerateResponse(c, f)

\* one submitted message and its request sequence; at most MaxTurns messages
\* are submitted
NextRequest ==
    \/ \E c \in 1..MaxTurns, f \in FaultChoices : SendMessage(c, f)
    \/ \E c \in Calls, ok \in BOOLEAN, f \in FaultChoices : NewSessionDone(c, ok, f)
    \/ \E c \in Calls, f \in FaultChoices : FetchNetworkError(c, f)
    \/ \E c \in Calls, f \in FaultChoices : FetchTimeout(c, f)
    \/ \E c \in Calls, ok \in BOOLEAN : FetchHeaders(c, ok)
    \/ \E c \in Calls, f \in FaultChoices : ErrBodyDone(c, f)
    \/ \E c \in Calls, f \in FaultChoices : BodyMalformed(c, f)
    \/ \E c \in Calls, hasResponse \in BOOLEAN, f \in FaultChoices : BodyParsed(c, hasResponse, f)
    \/ \E c \in Calls : BackoffDone(c)
    \/ \E t \in InputTexts : TypeInput(t)

\* one submitted message, and the submits that the entry guard turns away
NextGuard ==
    \/ NextRequest
    \/ SendMessageReturns

\* the session handlers: New Chat, the sidebar entries, and the lazy creation
\* of a session by a submit (the /generate request that follows the creation
\* does not touch currentSessionId and is left to SpecRequest)
NextSessions ==
    \/ StartNewChat
    \/ \E ok \in BOOLEAN : NewChatDone(ok)
    \/ \E s \in ExistingSessions \cup {FreshIds[i] : i \in 1..MaxNewSessions} : LoadChat(s)
    \/ \E s \in loads, ok \in BOOLEAN, msgs \in StoredHistories : LoadChatDone(s, ok, msgs)
    \/ \E t \in InputTexts : TypeInput(t)
    \/ \E c \in 1..MaxTurns, f \in FaultChoices : SendMessage(c, f)
    \/ \E c \in Calls, ok \in BOOLEAN, f \in FaultChoices : NewSessionDone(c, ok, f)

\* a message of n characters, no two neighbours alike, without blanks or dots
Digits == <<"0", "1", "2", "3", "4", "5", "6", "7", "8", "9">>
TitleText(n) == [i \in 1..n |-> Digits[(i % 10) + 1]]

\* messages around the title limit
TitleTexts == {TitleText(n) : n \in (TitleMax - 1)..MaxTitleLen}

\* one submitted message around the title limit, and its request, which the
\* server answers at the first attempt
NextTitle ==
    \/ \E c \in 1..MaxTurns, f \in FaultChoices : SendMessage(c, f)
    \/ \E c \in Calls, ok \in BOOLEAN, f \in FaultChoices : NewSessionDone(c, ok, f)
    \/ \E c \in Calls : FetchHeaders(c, TRUE)
    \/ \E c \in Calls, hasResponse \in BOOLEAN, f \in FaultChoices : BodyParsed(c, hasResponse, f)
    \/ \E t \in TitleTexts : TypeInput(t)

\* up to MaxCalls submitted messages of different texts, and their requests
NextRetitle ==
    \/ \E c \in 1..MaxCalls, f \in FaultChoices : SendMessage(c, f)
    \/ \E c \in Calls, ok \in BOOLEAN, f \in FaultChoices : NewSessionDone(c, ok, f)
    \/ \E c \in Calls, f \in FaultChoices : FetchNetworkError(c, f)
    \/ \E c \in Calls, f \in FaultChoices : FetchTimeout(c, f)
    \/ \E c \in Calls, ok \in BOOLEAN : FetchHeaders(c, ok)
    \/ \E c \in Calls, f \in FaultChoices : ErrBodyDone(c, f)
    \/ \E c \in Calls, f \in FaultChoices : BodyMalformed(c, f)
    \/ \E c \in Calls, hasResponse \in BOOLEAN, f \in FaultChoices : BodyParsed(c, hasResponse, f)
    \/ \E c \in Calls : BackoffDone(c)
    \/ \E t \in TitleTexts : TypeInput(t)

\* texts typed while the request context is observed
ContextTexts == InputTexts \cup {ThinkingText}

\* a stored conversation is opened, a mode and a voice are chosen, a message is
\* submitted or a reply regenerated, and the server answers the request at the
\* first attempt
NextContext ==
    \/ \E c \in 1..MaxTurns, f \in FaultChoices : SendMessage(c, f)
    \/ \E c \in Calls, ok \in BOOLEAN, f \in FaultChoices : NewSessionDone(c, ok, f)
    \/ \E c \in Calls : FetchHeaders(c, TRUE)
    \/ \E c \in Calls, hasResponse \in BOOLEAN, f \in FaultChoices : BodyParsed(c, hasResponse, f)
    \/ \E t \in ContextTexts : TypeInput(t)
    \/ \E c \in 1..MaxTurns, f \in FaultChoices : RegenerateResponse(c, f)
    \/ \E s \in ExistingSessions : LoadChat(s)
    \/ \E s \in loads, ok \in BOOLEAN, msgs \in StoredHistories : LoadChatDone(s, ok, msgs)
    \/ \E ok \in BOOLEAN : NewChatDone(ok)
    \/ \E mode \in Modes : SelectMode(mode)
    \/ \E value \in BrandVoices : SelectBrandVoice(value)

\* conversations as GET /chat/<id> returns them, with two different user
\* messages
RegenerateHistories ==
    { << [sender |-> "user", content |-> <<"a">>],
         [sender |-> "ai", content |-> ResponseText],
         [sender |-> "user", content |-> <<"b">>],
         [sender |-> "ai", content |-> ResponseText] >> }

\* a stored conversation is opened and its last reply regenerated, with the
\* mode buttons and the voice dropdown in use
NextRegenerate ==
    \/ \E s \in ExistingSessions : LoadChat(s)
    \/ \E s \in loads, ok \in BOOLEAN, msgs \in RegenerateHistories : LoadChatDone(s, ok, msgs)
    \/ \E ok \in BOOLEAN : NewChatDone(ok)
    \/ \E c \in 1..MaxTurns, f \in FaultChoices : RegenerateResponse(c, f)
    \/ \E c \in Calls, f \in FaultChoices : FetchNetworkError(c, f)
    \/ \E c \in Calls, f \in FaultChoices : FetchTimeout(c, f)
    \/ \E c \in Calls, ok \in BOOLEAN : FetchHeaders(c, ok)
    \/ \E c \in Calls, f \in FaultChoices : ErrBodyDone(c, f)
    \/ \E c \in Calls, f \in FaultChoices : BodyMalformed(c, f)
    \/ \E c \in Calls, hasResponse \in BOOLEAN, f \in FaultChoices : BodyParsed(c, hasResponse, f)
    \/ \E c \in Calls : BackoffDone(c)
    \/ \E mode \in Modes : SelectMode(mode)
    \/ \E value \in BrandVoices : SelectBrandVoice(value)

\* the mode buttons in use around one submitted message whose request the
\* server answers at the first attempt
NextModes ==
    \/ \E t \in InputTexts : TypeInput(t)
    \/ \E c \in 1..MaxTurns, f \in FaultChoices : SendMessage(c, f)
    \/ \E c \in Calls, ok \in BOOLEAN, f \in FaultChoices : NewSessionDone(c, ok, f)
    \/ \E c \in Calls : FetchHeaders(c, TRUE)
    \/ \E c \in Calls, hasResponse \in BOOLEAN, f \in FaultChoices : BodyParsed(c, hasResponse, f)
    \/ \E mode \in Modes : SelectMode(mode)

\* one submitted message and its request on a page where other scripts raise
\* uncaught errors and unhandled rejections
NextErrors ==
    \/ NextRequest
    \/ \E f \in FaultChoices : UnhandledRejection(f)
    \/ GlobalError

\* what GET /chat/<id> returns for each stored session
StoredHistoryOf(s) ==
    << [sender |-> "user", content |-> IF s = "s0" THEN <<"a">> ELSE <<"b">>],
       [sender |-> "ai", content |-> ResponseText] >>

\* clicks on sidebar entries whose loads may overlap, every load answered
\* with the stored conversation; the draft and the mode buttons are in use
NextOverlap ==
    \/ \E ok \in BOOLEAN, chats \in HistoryLists : LoadChatHistoryDone(ok, chats)
    \/ \E s \in StoredSessions : LoadChatWithin(s, MaxOverlap)
    \/ \E s \in loads : LoadChatDone(s, TRUE, StoredHistoryOf(s))
    \/ \E t \in InputTexts : TypeInput(t)
    \/ \E mode \in Modes : SelectMode(mode)

\* the sidebar of a signed-in user: the stored sessions arrive, sessions are
\* created, opened and deleted
NextSidebar ==
    \/ \E ok \in BOOLEAN, chats \in HistoryLists : LoadChatHistoryDone(ok, chats)
    \/ StartNewChat
    \/ \E ok \in BOOLEAN : NewChatDone(ok)
    \/ \E s \in StoredSessions \cup {FreshIds[i] : i \in 1..MaxNewSessions} : LoadChat(s)
    \/ \E s \in loads, ok \in BOOLEAN : LoadChatDone(s, ok, StoredHistoryOf(s))
    \/ \E s \in SidebarIds(sidebar), confirmed \in BOOLEAN : DeleteSession(s, confirmed)
    \/ \E s \in deletes, ok \in BOOLEAN : DeleteDone(s, ok)

\* the earlier copy of sendMessage and its request
NextEarlier ==
    \/ \E c \in 1..MaxCalls, f \in FaultChoices : EarlierSendMessage(c, f)
    \/ \E c \in Calls, ok \in BOOLEAN, f \in FaultChoices : EarlierNewSessionDone(c, ok, f)
    \/ \E c \in Calls, res \in {"response", "notok", "reject", "badjson"}, f \in FaultChoices :
           EarlierAnswered(c, res, f)
    \/ \E t \in InputTexts : TypeInput(t)

NextWizard ==
    \/ \E fld \in Fields : \E v \in FieldValues(fld) : FieldInput(fld, v)
    \/ FieldChange
    \/ \E h \in DOMAIN timers : AutoSaveTimer(h)
    \/ \E i \in 1..Len(saves), res \in {"ok", "notok", "neterr"} : AutoSaveResponse(i, res)
    \/ Tick

\* the wizard with its steps and its final submit
NextWizardSubmit ==
    \/ \E fld \in Fields : \E v \in FieldValues(fld) : FieldInput(fld, v)
    \/ FieldChange
    \/ \E h \in DOMAIN timers : AutoSaveTimer(h)
    \/ \E i \in 1..Len(saves), res \in {"ok", "notok", "neterr"} : AutoSaveResponse(i, res)
    \/ Tick
    \/ \E direction \in {-1, 1} : ChangeStep(direction)
    \/ HandleSubmit
    \/ \E res \in {"success", "failure", "notok", "neterr"} : SubmitResponse(res)
    \/ Redirect

\* the wizard's form, its step buttons and its final submit, all within one
\* debounce interval of the first edit (the clock does not advance)
NextSteps ==
    \/ \E fld \in Fields : \E v \in FieldValues(fld) : FieldInput(fld, v)
    \/ \E direction \in {-1, 1} : ChangeStep(direction)
    \/ HandleSubmit
    \/ \E res \in {"success", "failure", "notok", "neterr"} : SubmitResponse(res)

\* the earlier copy of the wizard: form, step buttons and final submit within
\* one debounce interval of the first edit
NextEarlierSteps ==
    \/ \E fld \in Fields : \E v \in FieldValues(fld) : EarlierFieldInput(fld, v)
    \/ \E direction \in {-1, 1} : EarlierChangeStep(direction)
    \/ EarlierHandleSubmit
    \/ \E res \in {"ok", "notok", "badjson", "neterr"} : EarlierSubmitResponse(res)

\* statements issued by authenticated users against the two chat tables
NextDb ==
    \/ \E uid \in Users : DbSelectSessions(uid)
    \/ \E uid \in Users, row \in SessionRows : DbInsertSession(uid, row)
    \/ \E uid \in Users, row \in SessionRows : DbUpdateSession(uid, row)
    \/ \E uid \in Users, sid \in DbSessionIds : DbDeleteSession(uid, sid)
    \/ \E uid \in Users : DbSelectMessages(uid)
    \/ \E uid \in Users, row \in MessageRows : DbInsertMessage(uid, row)
    \/ \E uid \in Users, mid \in DbMessageIds : DbDeleteMessage(uid, mid)

vars == <<chatVars, wizVars, dbVars>>

Spec == Init /\ [][Next]_vars

SpecSubmit == Init /\ [][NextSubmit]_vars

SpecRequest == Init /\ [][NextRequest]_vars

\* the request sequence in an environment where addMessage may throw
SpecFaults == InitFaults /\ [][NextRequest]_vars

SpecEarlier == InitFaults /\ [][NextEarlier]_vars

SpecGuard == Init /\ [][NextGuard]_vars
SpecSessions == Init /\ [][NextSessions]_vars
SpecTitle == Init /\ [][NextTitle]_vars
SpecRetitle == Init /\ [][NextRetitle]_vars
SpecDb == Init /\ [][NextDb]_vars
SpecContext == Init /\ [][NextContext]_vars
SpecRegenerate == Init /\ [][NextRegenerate]_vars
SpecModes == Init /\ [][NextModes]_vars
SpecErrors == Init /\ [][NextErrors]_vars
SpecOverlap == InitFresh /\ [][NextOverlap]_vars
SpecSidebar == InitFresh /\ [][NextSidebar]_vars
SpecSteps == Init /\ [][NextSteps]_vars
SpecEarlierSteps == Init /\ [][NextEarlierSteps]_vars
SpecWizard == Init /\ [][NextWizard]_vars
SpecWizardSubmit == Init /\ [][NextWizardSubmit]_vars

\* ------------------------------------------------------------------ claims
\* a call that has just settled in this step
Settles(c) == calls[c].pc # "done" /\ calls'[c].pc = "done"

\* C1: a submit whose first two attempts fail and whose third succeeds appends
\* exactly one user message and exactly one assistant message, and no message
\* for a failed attempt; while the request is retried only the user message of
\* the turn has been appended.
C1_OneReplyAfterRetries ==
    \A c \in Calls :
        /\ (calls[c].pc = "done" /\ calls[c].outcome = "response")
              => calls[c].nUser = 1 /\ calls[c].nAi = 1 /\ calls[c].nErr = 0
        /\ Requesting(c) => calls[c].nUser = 1 /\ calls[c].nAi = 0 /\ calls[c].nErr = 0

C1_Witness ==
    \E c \in Calls :
        /\ calls[c].pc = "done" /\ calls[c].outcome = "response"
        /\ calls[c].attempt = DefaultMaxRetries
        /\ calls[c].nUser = 1 /\ calls[c].nAi = 1

\* C2: a sendMessage or regenerateResponse issued while an earlier sendMessage
\* has not settled is rejected: at most one call is in progress at any time.
C2_SecondSubmitRejected == Cardinality({c \in Calls : InFlight(c)}) <= 1

\* C3: a call that settles (reply or terminal error) while another session is
\* the active one leaves the conversation shown, which is that other
\* session's message list, as it was.
C3_LateResultIsolated ==
    [][\A c \in Calls :
          (Requesting(c) /\ Settles(c) /\ currentSessionId # None
             /\ calls[c].sid # currentSessionId)
          => RemoveAllLoading(dom') = RemoveAllLoading(dom)]_vars

\* C4: whichever way a sendMessage call settles (reply, error body, terminal
\* failure, exception while appending the reply or the error message) the
\* step that settles it leaves isGenerating false.
C4_FlagClearedOnEveryExit ==
    [][\A c \in Calls : Settles(c) => isGenerating' = FALSE]_vars

\* C5: when makeRequest gives up, the settling step appends exactly one
\* error-flagged assistant message and no reply, keeps every user message,
\* clears isGenerating so that the entry guard admits a following submit, and
\* sendMessage returns normally.
C5_TerminalFailureRecorded ==
    [][\A c \in Calls :
          (Requesting(c) /\ Settles(c) /\ calls'[c].thrown # "none")
          => /\ CountMsgs(dom', "ai", TRUE) = CountMsgs(dom, "ai", TRUE) + 1
             /\ CountMsgs(dom', "ai", FALSE) = CountMsgs(dom, "ai", FALSE)
             /\ SelectSeq(dom', LAMBDA m : m.sender = "user")
                   = SelectSeq(dom, LAMBDA m : m.sender = "user")
             /\ calls'[c].nUser = 1 /\ calls'[c].nErr = 1 /\ calls'[c].nAi = 0
             /\ dom'[Len(dom')].isError /\ dom'[Len(dom')].content = ErrMessage(calls'[c].thrown)
             /\ isGenerating' = FALSE
             /\ SendGuard(<<"a">>, isGenerating')
             /\ calls'[c].outcome = "error" /\ ~calls'[c].rejected]_vars

C5_Witness ==
    \E c \in Calls :
        /\ calls[c].pc = "done" /\ calls[c].thrown # "none"
        /\ calls[c].attempt = DefaultMaxRetries
        /\ calls[c].nErr = 1 /\ calls[c].nUser = 1
        /\ ~isGenerating
        /\ CountMsgs(dom, "user", FALSE) = 1 /\ CountMsgs(dom, "ai", TRUE) = 1

\* C6: makeRequest makes at most maxRetries (3) attempts, makes no attempt
\* after a successful one, and when it fails it has made all of them and the
\* error it raises is the error of the last attempt.
C6_AttemptsBounded ==
    \A c \in Calls :
        /\ calls[c].attempt <= DefaultMaxRetries
        /\ Requesting(c) => calls[c].attempt \in 1..DefaultMaxRetries
        /\ (calls[c].pc = "done" /\ calls[c].lastErr # "none")
              => /\ calls[c].attempt = DefaultMaxRetries
                 /\ calls[c].thrown \in ErrKinds
                 /\ calls[c].thrown = calls[c].lastErr
        /\ (calls[c].pc = "done" /\ calls[c].lastErr = "none") => calls[c].thrown = "none"

C6_Witness ==
    \E c \in Calls :
        /\ calls[c].pc = "done" /\ calls[c].attempt = DefaultMaxRetries
        /\ calls[c].lastErr = "json" /\ calls[c].thrown = "json"

\* C7: the wait after failed attempt k is 2^k seconds (2 s, then 4 s), there
\* is one wait per failed attempt except the last permitted one, and a
\* connection failure, a timeout, a non-2xx status and a malformed body all
\* lead to the same wait.
C7_ExponentialBackoff ==
    \A c \in Calls :
        /\ calls[c].waits \in { <<>>, <<2000>>, <<2000, 4000>> }
        /\ calls[c].pc \in {"fetch", "body", "errBody"}
              => Len(calls[c].waits) = calls[c].attempt - 1
        /\ calls[c].pc = "backoff"
              => /\ Len(calls[c].waits) = calls[c].attempt
                 /\ calls[c].attempt < DefaultMaxRetries
                 /\ calls[c].lastErr \in ErrKinds
        /\ (calls[c].pc = "done" /\ calls[c].attempt > 0)
              => Len(calls[c].waits) = calls[c].attempt - 1

C7_Witness ==
    \E c \in Calls :
        /\ calls[c].pc = "backoff" /\ calls[c].lastErr = "json"
        /\ calls[c].waits = <<2000, 4000>>

\* C8: every attempt in progress, waiting for the headers or for the body, has
\* its 45 s deadline armed.
C8_DeadlineCoversAttempt ==
    \A c \in Calls :
        calls[c].pc \in {"fetch", "body", "errBody"} => calls[c].deadline = "armed"

C10_SavesSerialized == Len(saves) <= 1

\* the three required inputs hold text other than white space
RequiredFilled == \A fld \in Fields : Trim(form[fld]) # << >>

\* a quiet period of T has followed the last update and every due timer has run
QuietPeriodOver == nedits > 0 /\ sinceUpdate >= AutoSaveDelayMs /\ NoTimerDue

\* C11 (as stated): after any update followed by 2000 ms without further
\* updates, a persistence request carrying the latest form state has been
\* issued.
C11_LastStatePersisted == QuietPeriodOver => burstPayload = <<form>>

\* C11 (amended): after an update followed by 2000 ms without further updates,
\* a persistence request carrying the latest form state has been issued
\* provided the three required fields are non-blank at that time.
C11_LastCompleteStatePersisted ==
    (QuietPeriodOver /\ RequiredFilled) => burstPayload = <<form>>

C11_Witness ==
    /\ QuietPeriodOver /\ RequiredFilled
    /\ burstCalls >= 2
    /\ burstPayload = <<form>>

\* C12: when the debounce timer fires, autoSave issues one request carrying
\* the form if the three required fields are non-blank, and otherwise issues
\* no request; in both cases the form, the profile id, the save indicator and
\* the validation marks are left as they were.
C12_SaveOnlyWhenRequiredFilled ==
    [][burstFires' = burstFires + 1
         => /\ IF RequiredFilled
               THEN saves' = Append(saves, [data |-> form, auto_save |-> TRUE,
                                            profile_id |-> profileId])
               ELSE saves' = saves
            /\ UNCHANGED <<form, profileId, nprofiles, saveIndicator, validity,
                           autoSaveTimeout>>]_vars

C12_Witness ==
    /\ burstFires = 1 /\ burstPayload = << >> /\ saves = << >>
    /\ form["voice_short_name"] = <<" ">>
    /\ Trim(form["company_name"]) # << >> /\ Trim(form["company_url"]) # << >>

\* C13: once the wizard's final submit has succeeded, the outstanding
\* auto-save timer is cancelled, so that no auto-save request is issued
\* afterwards.
SubmitSucceeded == redirectTimer # << >>

C13_NoSaveAfterSubmit ==
    [][SubmitSucceeded => Len(saves') <= Len(saves)]_vars

\* C14: when an auto-save request fails (a non-2xx answer or a rejected
\* fetch), the failure is reported by the save indicator, no request is issued
\* and no timer is armed by the failure, and the form keeps its values.
SaveFailed == Len(saves') < Len(saves) /\ saveAnswer' \in {"notok", "neterr"}

C14_FailureReportedNotRetried ==
    [][SaveFailed
         => /\ saveIndicator' = "error"
            /\ \E i \in 1..Len(saves) : saves' = RemoveAt(saves, i)
            /\ UNCHANGED <<form, timers, autoSaveTimeout, profileId>>]_vars

\* C15: a submit whose input is empty or whitespace-only is turned away at
\* the entry of sendMessage: no message is appended, the generating flag is
\* not set, no session is created and no request is started.
SubmitStep == ncalls' # ncalls \/ nrejects' # nrejects

C15_BlankSubmitRejected ==
    [][(SubmitStep /\ Trim(chatInput) = << >>)
         => /\ ncalls' = ncalls
            /\ UNCHANGED <<dom, isGenerating, currentSessionId, calls, nsessions,
                           sidebar, chatInput>>]_vars

C15_Witness ==
    /\ nrejects = 1 /\ ncalls = 0
    /\ chatInput = <<" ">>
    /\ dom = << >> /\ ~isGenerating

\* C16: a logged-in client that submits without an active session attempts
\* the lazy session creation once; after a failed creation no user message is
\* appended and no /generate request goes out with a null session id.
C16_CreationAttemptedOnce ==
    isLoggedIn =>
        \A c \in Calls :
            /\ calls[c].pc # "newSession2"
            /\ Requesting(c) => calls[c].sid # None

\* C17: currentSessionId takes a new id only when /new-session has succeeded:
\* the active session is always one that exists on the server, and a step in
\* which a creation fails leaves the pointer null.
CreatedSessions == ExistingSessions \cup {FreshIds[i] : i \in 1..nsessions}

CreationAnswered ==
    \/ newChats' < newChats
    \/ \E c \in Calls : calls[c].pc \in {"newSession1", "newSession2"}
                        /\ calls'[c].pc # calls[c].pc

C17_PointerSetAfterCreation ==
    [][/\ currentSessionId' # None => currentSessionId' \in CreatedSessions'
       /\ (CreationAnswered /\ nsessions' = nsessions) => currentSessionId' = None]_vars

C17_Witness ==
    /\ isLoggedIn
    /\ nsessions = 0 /\ newChats = 0 /\ nrejects = 0
    /\ currentSessionId = None
    /\ \E c \in Calls : calls[c].pc = "newSession2"

\* C18: when loadChat(B) is answered while session A is active, either B has
\* been loaded and is the active session, or the load failed and the active
\* session is still A with A's messages on display.
C18_FailedLoadKeepsActive ==
    [][\A s \in loads \ loads' :
          currentSessionId # None
            => \/ currentSessionId' = s
               \/ currentSessionId' = currentSessionId /\ dom' = dom]_vars

\* C19: a regenerate goes ahead only when the last message is not a user
\* message (otherwise nothing is removed, nothing appended and no request
\* sent), and when it goes ahead it removes at most the last assistant
\* message: every message before it, and every user message, stays in place.
RegenerateStarted == ncalls' # ncalls /\ Trim(chatInput) = << >>

C19_RegenerateNeedsTrailingReply ==
    [][RegenerateStarted
         => /\ dom[Len(dom)].sender # "user"
            /\ LET kept == IF dom[Len(dom)].sender = "ai" THEN Len(dom) - 1 ELSE Len(dom)
               IN Len(dom') >= kept /\ SubSeq(dom', 1, kept) = SubSeq(dom, 1, kept)]_vars

\* C20: once n submit/regenerate calls that did not overlap have all settled,
\* the conversation holds what they appended, in order: one user message per
\* call, each followed by the reply (or error bubble) of that call.  A guest
\* has no session to create, so a guest's calls never overlap.
Quiescent == \A c \in Calls : ~InFlight(c)

C20_InsertionOrderKept ==
    (~isLoggedIn /\ Quiescent)
      => /\ Len(dom) = 2 * ncalls
         /\ \A i \in 1..Len(dom) : dom[i].sender = (IF i % 2 = 1 THEN "user" ELSE "ai")

\* C21: the title derived from a message m is m when m has at most 50
\* characters, and otherwise the first 47 characters of m followed by three
\* dots; it never has more than 50 characters.
IsTitleOf(t, m) ==
    /\ Len(t) <= 50
    /\ Len(m) <= 50 => t = m
    /\ Len(m) > 50 => /\ Len(t) = 50
                      /\ \A i \in 1..47 : t[i] = m[i]
                      /\ \A i \in 48..50 : t[i] = "."

\* the step in which the reply of call c arrives and its prompt titles a session
Retitled(c, i) ==
    /\ calls[c].pc = "body" /\ calls'[c].pc = "done"
    /\ i \in 1..Len(sidebar) /\ Len(sidebar') = Len(sidebar)
    /\ sidebar'[i] # sidebar[i]

C21_TitleDerivation ==
    [][\A c \in Calls : \A i \in 1..Len(sidebar) :
          Retitled(c, i) => IsTitleOf(sidebar'[i].title, calls[c].prompt)]_vars

C21_Witness ==
    \E i \in 1..Len(sidebar) : \E j \in 1..Len(dom) :
        /\ Len(sidebar[i].title) = 50 /\ sidebar[i].title[50] = "."
        /\ dom[j].sender = "user" /\ Len(dom[j].content) = 51
        /\ sidebar[i].count = 2

\* C22: a reply titles its session only when the session has no title yet
\* (its sidebar entry still shows the placeholder); the title derived from the
\* first user message is kept by every later submit.
C22_TitleFromFirstMessage ==
    [][\A c \in Calls : \A i \in 1..Len(sidebar) :
          (Retitled(c, i) /\ sidebar[i].title # NewChatEntry(sidebar[i].id).title)
             => sidebar'[i].title = sidebar[i].title]_vars

\* C23: when the DELETE of the active session has succeeded, the session is
\* gone from the sidebar, the active pointer is null, and it stays null until
\* the user creates or selects a session: the deletion itself starts no load
\* and no session creation.
C23_DeleteLeavesNoActiveSession ==
    [][\A s \in deletes \ deletes' :
          (currentSessionId = s /\ s \notin SidebarIds(sidebar'))
             => /\ currentSessionId' = None
                /\ loads' = loads
                /\ newChats' = newChats]_vars

\* C24: the draft is cleared when a new session has been started and when
\* another session has been loaded: after a successful startNewChat and after
\* a successful loadChat the chat input is empty.
C24_SessionChangeClearsDraft ==
    [][/\ (newChats' < newChats /\ nsessions' > nsessions) => chatInput' = << >>
       /\ \A s \in loads \ loads' : currentSessionId' = s => chatInput' = << >>]_vars

\* C25: once the user has left the session a request was issued for, the call
\* is cancelled: it starts no further attempt and nothing it does afterwards
\* (a reply, an error bubble) reaches the conversation.
LeftSession(c) == Requesting(c) /\ calls[c].sid # currentSessionId

C25_SwitchCancelsRequest ==
    [][\A c \in Calls :
          (LeftSession(c) /\ calls'[c] # calls[c])
             => /\ calls'[c].attempt = calls[c].attempt
                /\ dom' = dom]_vars

\* C26: sessions are partitioned per owner.  A statement of an authenticated
\* user adds, changes or removes only chat_sessions rows whose user_id is that
\* user, before and after the statement, and only chat_messages rows of
\* sessions that user owns; and the rows a statement returns are that user's.
C26_SessionsPartitionedPerOwner ==
    [][/\ \A row \in (dbSessions \ dbSessions') \cup (dbSessions' \ dbSessions) :
             row.user_id = dbActor'
       /\ \A row \in dbMessages' \ dbMessages :
             OwnerOfSession(dbSessions', row.session_id) = dbActor'
       /\ \A row \in dbMessages \ dbMessages' :
             OwnerOfSession(dbSessions, row.session_id) = dbActor'
       /\ \A row \in dbSeen'.sessions : row.user_id = dbActor'
       /\ \A seen \in dbSeen'.messages : seen.owner = dbActor']_vars

C26_Witness ==
    /\ \E a \in dbSessions, b \in dbSessions : a.user_id = "u1" /\ b.user_id = "u2"
    /\ \E msg \in dbMessages : OwnerOfSession(dbSessions, msg.session_id) = "u2"
    /\ \E own \in dbMessages : OwnerOfSession(dbSessions, own.session_id) = "u1"
    /\ dbSeen.messages # {}
    /\ dbActor = "u1"

\* C27: an accepted submit appends the user message before the request is
\* issued and the reply only after it has settled; the request carries the
\* messages on display up to and including that user message, without the
\* loading placeholder, and the mode and the voice selected at that moment.
Issued(c) == ~Requesting(c) /\ calls'[c].pc = "fetch"

ShownMessages(d) ==
    LET shown == SelectSeq(d, LAMBDA m : m.loading = 0)
    IN [i \in 1..Len(shown) |->
           [role |-> IF shown[i].sender = "user" THEN "user" ELSE "assistant",
            content |-> shown[i].content]]

C27_RequestCarriesContext ==
    [][\A c \in Calls :
          Issued(c)
             => /\ calls'[c].nUser = 1 /\ calls'[c].nAi = 0 /\ calls'[c].nErr = 0
                /\ calls'[c].history = ShownMessages(dom')
                /\ calls'[c].history[Len(calls'[c].history)] =
                       [role |-> "user", content |-> calls'[c].prompt]
                /\ calls'[c].mode = currentMode
                /\ calls'[c].voice = (IF selectedBrandVoice = "" THEN None
                                      ELSE selectedBrandVoice)]_vars

AwaitsNewSession(c) == calls[c].pc \in {"newSession1", "newSession2"}

C30_GuardCoversSessionCreation ==
    [][(\E c \in Calls : AwaitsNewSession(c)) => ncalls' = ncalls]_vars

\* C31: the reply of a submit retitles and recounts the sidebar entry of the
\* session whose id the request carried, whatever session is active when the
\* reply arrives; no other entry is changed by it.
C31_ReplyTitlesRequestSession ==
    [][\A c \in Calls : \A i \in 1..Len(sidebar) :
          Retitled(c, i) => sidebar[i].id = calls[c].sid]_vars

\* C32: isGenerating is true for as long as the /generate request of a submit
\* is in flight, its retries and backoff waits included.
C32_GeneratingWhileInFlight ==
    \A c \in Calls : Requesting(c) => isGenerating

\* C33: once every pending load has been answered, the active session is the
\* one whose load was requested last and the conversation shown is its stored
\* history, in whatever order the answers arrived.
C33_LastRequestedLoadWins ==
    (loads = {} /\ lastLoad # None)
       => /\ currentSessionId = lastLoad
          /\ dom = AddAll(ClearChatMessages, StoredHistoryOf(lastLoad))

\* C34: of the auto-save requests of one draft at most one carries profile_id
\* null; no two such requests are ever in flight together and the server
\* never creates a second profile for the draft.
C34_OneProfilePerDraft ==
    /\ Cardinality({i \in 1..Len(saves) : saves[i].profile_id = None}) <= 1
    /\ nprofiles <= 1

\* C35: the answer to the DELETE of a session that is not the active one
\* leaves the active pointer and the messages on display as they are; a delete
\* that the user declines, or that the server does not carry out, leaves the
\* sidebar, the active pointer and the messages on display as they are.
C35_DeleteTouchesOnlyItsSession ==
    [][/\ \A s \in deletes \ deletes' :
             /\ currentSessionId # s
                   => currentSessionId' = currentSessionId /\ dom' = dom
             /\ s \in SidebarIds(sidebar')
                   => /\ sidebar' = sidebar
                      /\ currentSessionId' = currentSessionId
                      /\ dom' = dom
       /\ (ndeletes' # ndeletes /\ deletes' = deletes)
             => /\ sidebar' = sidebar
                /\ currentSessionId' = currentSessionId
                /\ dom' = dom]_vars

\* a session created on this page has been deleted while a stored session
\* stays open with its conversation on display
C35_Witness ==
    /\ nsessions = 1
    /\ ndeletes = 1 /\ deletes = {}
    /\ SidebarIds(sidebar) = StoredSessions
    /\ currentSessionId = "s0"
    /\ dom = AddAll(ClearChatMessages, StoredHistoryOf("s0"))

\* a call is accepted and the reply that ended the conversation is gone: the
\* step of regenerateResponse (a submit only appends)
ReplyRegenerated ==
    /\ ncalls' # ncalls
    /\ dom # << >> /\ dom[Len(dom)].sender = "ai"
    /\ (Len(dom') < Len(dom) \/ SubSeq(dom', 1, Len(dom)) # dom)

\* C36: a regeneration leaves the input box as it is: a draft typed but not
\* submitted is still there when the regeneration has started.
C36_RegenerateKeepsDraft ==
    [][ReplyRegenerated => chatInput' = chatInput]_vars

\* C37: the sidebar holds at most one entry per session id, whatever
\* loadChatHistory, startNewChat, addChatToSidebar and deleteSession have
\* done; a chat whose id is already present updates the entry it finds.
C37_OneEntryPerSession ==
    \A i \in 1..Len(sidebar) : \A j \in 1..Len(sidebar) :
        sidebar[i].id = sidebar[j].id => i = j

\* the stored sessions were listed with one of them twice: its single entry
\* shows the title and the count of the second mention
C37_Witness ==
    /\ Len(sidebar) = 2
    /\ \E i \in 1..Len(sidebar) :
          sidebar[i] = StoredChat("s0", <<"q">>, 4)

\* C38: loadChat of the session that is active issues no fetch (and so
\* changes neither the active pointer nor the messages on display): every
\* fetch of loadChat is issued for a session other than the active one.
C38_NoLoadOfActiveSession ==
    [][\A s \in loads' \ loads : currentSessionId # s]_vars

\* a stored session is open with its conversation on display and no load is
\* pending: a click on its sidebar entry is the call the claim is about
C38_Witness ==
    /\ currentSessionId = "s9"
    /\ "s9" \in SidebarIds(sidebar)
    /\ lastLoad = "s9"
    /\ loads = {}
    /\ dom = AddAll(ClearChatMessages, StoredHistoryOf("s9"))

\* the Previous button takes the wizard one step back
StepBack == ChangeStep(-1) /\ currentStep' = currentStep - 1

\* C39: currentStep stays within 1..totalSteps; it grows only by one and only
\* when the current step validates (at step 1 the three required fields are
\* non-blank); above step 1 a step back is always possible; currentStep falls
\* only by one, or to 1 when a submit finds a required field blank; any
\* other step leaves it as it is.
C39_StepInvariant ==
    [][/\ currentStep' \in 1..TotalSteps
       /\ currentStep' > currentStep
             => /\ currentStep' = currentStep + 1
                /\ currentStep = 1 => \A fld \in Fields : Trim(form[fld]) # << >>
       /\ currentStep' < currentStep
             => \/ currentStep' = currentStep - 1
                \/ /\ currentStep' = 1
                   /\ nsubmits' # nsubmits
                   /\ \E fld \in Fields : Trim(form[fld]) = << >>
       /\ (currentStep > 1 /\ ~unloaded /\ NoTimerDue /\ ~RedirectDue) => ENABLED StepBack]_vars

\* the last step has been reached, step by step from a valid step 1, and a
\* submit has been made
C39_Witness ==
    /\ currentStep = TotalSteps
    /\ \A fld \in Fields : validity[fld] = "is-valid"
    /\ nsubmits > 0

\* C40: a submit that finds a required field blank sends no request and
\* takes the wizard to step 1; a submit made while a request is in flight
\* sends no second request; when the answer to the request has been handled,
\* whatever it was, isSubmitting is false.
C40_FinalSubmit ==
    [][/\ (nsubmits' # nsubmits /\ \E fld \in Fields : Trim(form[fld]) = << >>)
             => creates' = creates /\ currentStep' = 1
       /\ (nsubmits' # nsubmits /\ isSubmitting) => creates' = creates
       /\ Len(creates') < Len(creates) => isSubmitting' = FALSE]_vars

====
